---- MODULE Spec2Model ----
(***************************************************************************)
(* A model of the quantum virtual machine (QVM): the dense state vector,   *)
(* the qubit registry, the gate executor, the measurement engine, the QBC  *)
(* codec and the bytecode interpreter, as the JavaScript sources define    *)
(* them.                                                                   *)
(*                                                                         *)
(* JavaScript numbers are modelled exactly on the ring Z[sqrt 2][1/2]      *)
(* (every amplitude the catalogued gates produce lies in it) extended with *)
(* NaN; rounding error is not modelled.  A value (a + b*sqrt 2) / 2^k is   *)
(* the record [nan, a, b, k].                                              *)
(***************************************************************************)
EXTENDS Integers, Sequences, FiniteSets, TLC

(* ------------------------------------------------------------------ *)
(* Bounds of the model                                                  *)
(* ------------------------------------------------------------------ *)
\* StateVector options.maxQubits, as passed to initialize(config)
ConfigMaxQubits == 2
\* QubitRegistry.maxQubits, as read from QVM_MAX_QUBITS
RegistryMaxQubits == 3
\* gates applied through the gate executor in one behaviour of Spec
MaxGates == 1
\* collapsing measurements between two resets in one behaviour of Spec
MaxMeasurements == 1
\* the same two bounds for SpecBell
MaxBellGates == 2
MaxBellMeasurements == 2
\* instructions one execute() runs before the model stops following it
MaxSteps == 8
\* calls of execute() or executeQBC() in one behaviour
MaxRuns == 1
\* handles ever issued by uuidv4 in one behaviour
MaxHandles == 3
\* facade resets in one behaviour
MaxResets == 1
\* collapsing measurements in one behaviour of SpecMeasure
MaxEngineMeasurements == 2
\* the largest number of shots handed to sample
MaxShots == 2
\* the qubits of the state vector of SpecVector and the gates between two resets
VectorMaxQubits == 2
MaxVectorGates == 2
\* the qubits of the machine of SpecGates and the gates applied in one behaviour
GateMaxQubits == 3
MaxCircuitGates == 3

(* ------------------------------------------------------------------ *)
(* JavaScript numbers                                                   *)
(* ------------------------------------------------------------------ *)
NaN == [nan |-> TRUE, a |-> 0, b |-> 0, k |-> 0]

RECURSIVE Reduce(_, _, _)
Reduce(a, b, k) ==
  IF k > 0 /\ a % 2 = 0 /\ b % 2 = 0
  THEN Reduce(a \div 2, b \div 2, k - 1)
  ELSE [nan |-> FALSE, a |-> a, b |-> b, k |-> k]

Num(a, b, k) == Reduce(a, b, k)

RECURSIVE Pow2(_)
Pow2(n) == IF n <= 0 THEN 1 ELSE 2 * Pow2(n - 1)

Zero == Num(0, 0, 0)
One == Num(1, 0, 0)
\* 1/Math.sqrt(2)
InvSqrt2 == Num(0, 1, 1)

MaxOf(x, y) == IF x >= y THEN x ELSE y

NumAdd(x, y) ==
  IF x.nan \/ y.nan THEN NaN
  ELSE LET K == MaxOf(x.k, y.k)
       IN Num(x.a * Pow2(K - x.k) + y.a * Pow2(K - y.k),
              x.b * Pow2(K - x.k) + y.b * Pow2(K - y.k), K)

NumNeg(x) == IF x.nan THEN NaN ELSE Num(0 - x.a, 0 - x.b, x.k)

NumSub(x, y) == NumAdd(x, NumNeg(y))

NumMul(x, y) ==
  IF x.nan \/ y.nan THEN NaN
  ELSE Num(x.a * y.a + 2 * x.b * y.b, x.a * y.b + x.b * y.a, x.k + y.k)

\* the sign of a + b*sqrt 2
Sign(x) ==
  IF x.a >= 0 /\ x.b >= 0 THEN (IF x.a = 0 /\ x.b = 0 THEN 0 ELSE 1)
  ELSE IF x.a <= 0 /\ x.b <= 0 THEN 0 - 1
  ELSE IF x.a > 0 THEN (IF x.a * x.a > 2 * x.b * x.b THEN 1 ELSE 0 - 1)
  ELSE (IF 2 * x.b * x.b > x.a * x.a THEN 1 ELSE 0 - 1)

\* x < y; every comparison with NaN is false
NumLess(x, y) == IF x.nan \/ y.nan THEN FALSE ELSE Sign(NumSub(y, x)) > 0

\* x === 0
NumIsZero(x) == (~x.nan) /\ x.a = 0 /\ x.b = 0

\* x / y for y a power of two times a unit; no other quotient arises
NumDiv(x, y) ==
  IF x.nan \/ y.nan THEN NaN
  ELSE LET d == y.a * y.a - 2 * y.b * y.b
           e == CHOOSE m \in 0..30 : Pow2(m) = (IF d < 0 THEN 0 - d ELSE d)
           s == IF d < 0 THEN 0 - 1 ELSE 1
           n == NumMul(x, Num(s * y.a, 0 - s * y.b, 0))
       IN Num(n.a * Pow2(y.k), n.b * Pow2(y.k), n.k + e)

\* Math.sqrt(x), kept as the root of its argument
MathSqrt(x) == [sqrtOf |-> x]

\* reading property f of a JavaScript value; undefined acts as NaN in arithmetic
Prop(v, f) == IF f \in DOMAIN v THEN v[f] ELSE NaN

\* Math.abs(Math.sqrt(s) - 1) > precision: on the exact ring, s differs from 1
FarFromOne(root) == (~root.sqrtOf.nan) /\ root.sqrtOf # One

(* ------------------------------------------------------------------ *)
(* ComplexNumber (utils/complex-math.js)                                *)
(* ------------------------------------------------------------------ *)
NoError == <<>>
Thrown(msg, arg) == <<msg, arg>>

ComplexNumber(real, imag) == [real |-> real, imag |-> imag]

CZero == ComplexNumber(Zero, Zero)
COne == ComplexNumber(One, Zero)

add(this, other) ==
  ComplexNumber(NumAdd(this.real, other.real), NumAdd(this.imag, other.imag))

multiply(this, other) ==
  ComplexNumber(NumSub(NumMul(this.real, other.real), NumMul(this.imag, other.imag)),
                NumAdd(NumMul(this.real, other.imag), NumMul(this.imag, other.real)))

\* divide(other): other is read through .real and .imag whatever it is
divide(this, other) ==
  LET oreal == Prop(other, "real")
      oimag == Prop(other, "imag")
      denominator == NumAdd(NumMul(oreal, oreal), NumMul(oimag, oimag))
  IN IF NumIsZero(denominator)
     THEN [err |-> Thrown("Division by zero", 0), val |-> this]
     ELSE [err |-> NoError,
           val |-> ComplexNumber(
                     NumDiv(NumAdd(NumMul(this.real, oreal), NumMul(this.imag, oimag)),
                            denominator),
                     NumDiv(NumSub(NumMul(this.imag, oreal), NumMul(this.real, oimag)),
                            denominator))]

magnitudeSquared(this) ==
  NumAdd(NumMul(this.real, this.real), NumMul(this.imag, this.imag))

\* Math.abs(x) < epsilon on the exact ring: x is 0 (false for NaN)
isZero(this) == NumIsZero(this.real) /\ NumIsZero(this.imag)

(* ------------------------------------------------------------------ *)
(* Gate catalog (utils/quantum-gates.js); a matrix is rows of rows,     *)
(* indexed from 0 through At                                            *)
(* ------------------------------------------------------------------ *)
At(m, r, c) == m[r + 1][c + 1]

Re(n) == ComplexNumber(n, Zero)
Im(n) == ComplexNumber(Zero, n)

GATES ==
  [X |-> << <<CZero, COne>>, <<COne, CZero>> >>,
   Y |-> << <<CZero, Im(NumNeg(One))>>, <<Im(One), CZero>> >>,
   Z |-> << <<COne, CZero>>, <<CZero, Re(NumNeg(One))>> >>,
   H |-> << <<Re(InvSqrt2), Re(InvSqrt2)>>, <<Re(InvSqrt2), Re(NumNeg(InvSqrt2))>> >>,
   S |-> << <<COne, CZero>>, <<CZero, Im(One)>> >>,
   T |-> << <<COne, CZero>>, <<CZero, ComplexNumber(InvSqrt2, InvSqrt2)>> >>,
   I |-> << <<COne, CZero>>, <<CZero, COne>> >>]

CZMatrix ==
  << <<COne, CZero, CZero, CZero>>, <<CZero, COne, CZero, CZero>>, <<CZero, CZero, COne, CZero>>,
     <<CZero, CZero, CZero, Re(NumNeg(One))>> >>

CNOTMatrix ==
  << <<COne, CZero, CZero, CZero>>, <<CZero, COne, CZero, CZero>>, <<CZero, CZero, CZero, COne>>, <<CZero, CZero, COne, CZero>> >>

\* createControlledGate(gate) of utils/complex-math.js
createControlledGate(gate) ==
  << <<COne, CZero, CZero, CZero>>, <<CZero, COne, CZero, CZero>>,
     <<CZero, CZero, At(gate, 0, 0), At(gate, 0, 1)>>,
     <<CZero, CZero, At(gate, 1, 0), At(gate, 1, 1)>> >>

(* ------------------------------------------------------------------ *)
(* StateVector (core/state-vector.js).  The object is a record; a       *)
(* method returns the object after the call and the error it threw.     *)
(* ------------------------------------------------------------------ *)
VLen(v) == Cardinality(DOMAIN v)

\* (i >> k) & 1
Bit(i, k) == (i \div Pow2(k)) % 2

\* i ^ (1 << k)
Flip(i, k) == IF Bit(i, k) = 0 THEN i + Pow2(k) ELSE i - Pow2(k)

RECURSIVE SumOver(_, _, _)
SumOver(v, idx, acc) ==
  IF idx = {} THEN acc
  ELSE LET i == CHOOSE j \in idx : \A m \in idx : j <= m
       IN SumOver(v, idx \ {i}, NumAdd(acc, magnitudeSquared(v[i])))

EmptyCache == [i \in {} |-> Zero]

invalidateProbabilityCache(S) == [S EXCEPT !.probabilityCache = EmptyCache]

updateMemoryUsage(S) ==
  [S EXCEPT !.metrics.memoryUsage = VLen(S.stateVector) * 16]

initializeStateVector(qubitCount, maxQubits) ==
  IF Pow2(qubitCount) > Pow2(maxQubits)
  THEN [err |-> Thrown("Cannot initialize state vector", qubitCount), val |-> <<>>]
  ELSE [err |-> NoError,
        val |-> [i \in 0..(Pow2(qubitCount) - 1) |-> IF i = 0 THEN COne ELSE CZero]]

\* new StateVector(initialQubitCount, options)
NewStateVector(initialQubitCount, maxQubits) ==
  [stateVector |-> initializeStateVector(initialQubitCount, maxQubits).val,
   qubitCount |-> initialQubitCount,
   maxQubits |-> maxQubits,
   probabilityCache |-> EmptyCache,
   metrics |-> [gateOperations |-> 0,
                stateVectorSize |-> Pow2(initialQubitCount),
                memoryUsage |-> Pow2(initialQubitCount) * 16]]

\* expandStateVector with the new upper half a copy of the lower half
expandStateVector_Copied(S0) ==
  LET S == invalidateProbabilityCache(S0)
      oldSize == VLen(S.stateVector)
      newSize == oldSize * 2
  IN IF newSize > Pow2(S.maxQubits)
     THEN [S |-> S, err |-> Thrown("Cannot expand state vector beyond", S.maxQubits)]
     ELSE [S |-> updateMemoryUsage(
                   [S EXCEPT !.stateVector =
                               [i \in 0..(newSize - 1) |->
                                  IF i < oldSize THEN S.stateVector[i]
                                  ELSE S.stateVector[i - oldSize]],
                             !.qubitCount = S.qubitCount + 1,
                             !.metrics.stateVectorSize = newSize]),
           err |-> NoError]

expandStateVector(S0) ==
  LET S == invalidateProbabilityCache(S0)
      oldSize == VLen(S.stateVector)
      newSize == oldSize * 2
  IN IF newSize > Pow2(S.maxQubits)
     THEN [S |-> S, err |-> Thrown("Cannot expand state vector beyond", S.maxQubits)]
     ELSE [S |-> updateMemoryUsage(
                   [S EXCEPT !.stateVector =
                               [i \in 0..(newSize - 1) |->
                                  IF i < oldSize THEN S.stateVector[i] ELSE CZero],
                             !.qubitCount = S.qubitCount + 1,
                             !.metrics.stateVectorSize = newSize]),
           err |-> NoError]

validateQubitIndex(S, qubitIndex) ==
  IF qubitIndex < 0 \/ qubitIndex >= S.qubitCount
  THEN Thrown("Qubit index out of bounds", qubitIndex)
  ELSE NoError

\* the error of normalize(), or NoError
NormalizeDivisions(v, norm) == [i \in DOMAIN v |-> divide(v[i], norm)]

normalize(S) ==
  LET normSquared == SumOver(S.stateVector, DOMAIN S.stateVector, Zero)
      norm == MathSqrt(normSquared)
      q == NormalizeDivisions(S.stateVector, norm)
  IN IF FarFromOne(norm)
     THEN IF \E i \in DOMAIN q : q[i].err # NoError
          THEN [S |-> S, err |-> Thrown("Division by zero", 0)]
          ELSE [S |-> [S EXCEPT !.stateVector = [i \in DOMAIN q |-> q[i].val]],
                err |-> NoError]
     ELSE [S |-> S, err |-> NoError]

SingleQubitKernel(v, k, g) ==
  [i \in DOMAIN v |->
     IF Bit(i, k) = 0
     THEN add(add(CZero, multiply(v[i], At(g, 0, 0))), multiply(v[Flip(i, k)], At(g, 0, 1)))
     ELSE add(add(CZero, multiply(v[Flip(i, k)], At(g, 1, 0))), multiply(v[i], At(g, 1, 1)))]

applySingleQubitGate(S0, qubitIndex, gateMatrix) ==
  LET bad == validateQubitIndex(S0, qubitIndex)
      S == invalidateProbabilityCache(S0)
      n == normalize([S EXCEPT !.stateVector =
                                 SingleQubitKernel(S.stateVector, qubitIndex, gateMatrix)])
  IN IF bad # NoError THEN [S |-> S0, err |-> bad]
     ELSE IF n.err # NoError THEN n
     ELSE [S |-> updateMemoryUsage(
                   [n.S EXCEPT !.metrics.gateOperations = n.S.metrics.gateOperations + 1]),
           err |-> NoError]

\* the index that agrees with i outside bits c and t and carries (cb, tb) there
WithBits(i, c, t, cb, tb) ==
  i - Bit(i, c) * Pow2(c) - Bit(i, t) * Pow2(t) + cb * Pow2(c) + tb * Pow2(t)

TwoQubitKernel(v, c, t, g) ==
  [m \in DOMAIN v |->
     LET j == 2 * Bit(m, c) + Bit(m, t)
         term(cb, tb) == multiply(v[WithBits(m, c, t, cb, tb)], At(g, j, 2 * cb + tb))
     IN add(add(add(add(CZero, term(0, 0)), term(0, 1)), term(1, 0)), term(1, 1))]

applyTwoQubitGate(S0, controlQubitIndex, targetQubitIndex, gateMatrix) ==
  LET bad1 == validateQubitIndex(S0, controlQubitIndex)
      bad2 == validateQubitIndex(S0, targetQubitIndex)
      S == invalidateProbabilityCache(S0)
      n == normalize([S EXCEPT !.stateVector =
                        TwoQubitKernel(S.stateVector, controlQubitIndex,
                                       targetQubitIndex, gateMatrix)])
  IN IF bad1 # NoError THEN [S |-> S0, err |-> bad1]
     ELSE IF bad2 # NoError THEN [S |-> S0, err |-> bad2]
     ELSE IF controlQubitIndex = targetQubitIndex
     THEN [S |-> S, err |-> Thrown("Control and target qubits must be different", 0)]
     ELSE IF n.err # NoError THEN n
     ELSE [S |-> updateMemoryUsage(
                   [n.S EXCEPT !.metrics.gateOperations = n.S.metrics.gateOperations + 1]),
           err |-> NoError]

CNOTKernel(v, c, t) ==
  [m \in DOMAIN v |-> IF Bit(m, c) = 1 THEN v[Flip(m, t)] ELSE v[m]]

applyCNOT(S0, controlQubitIndex, targetQubitIndex) ==
  LET bad1 == validateQubitIndex(S0, controlQubitIndex)
      bad2 == validateQubitIndex(S0, targetQubitIndex)
      S == invalidateProbabilityCache(S0)
  IN IF bad1 # NoError THEN [S |-> S0, err |-> bad1]
     ELSE IF bad2 # NoError THEN [S |-> S0, err |-> bad2]
     ELSE IF controlQubitIndex = targetQubitIndex
     THEN [S |-> S, err |-> Thrown("Control and target qubits must be different", 0)]
     ELSE [S |-> updateMemoryUsage(
                   [S EXCEPT !.stateVector =
                               CNOTKernel(S.stateVector, controlQubitIndex, targetQubitIndex),
                             !.metrics.gateOperations = S.metrics.gateOperations + 1]),
           err |-> NoError]

\* the amplitudes kept by a collapse onto outcome, before renormalising
Collapsed(v, qubitIndex, outcome) ==
  [i \in DOMAIN v |-> IF Bit(i, qubitIndex) = outcome THEN v[i] ELSE CZero]

\* surviving amplitudes divided by normFactor
Renormalized(w, normFactor) ==
  [i \in DOMAIN w |-> IF ~isZero(w[i]) THEN divide(w[i], normFactor).val ELSE w[i]]

\* measureQubit(qubitIndex) with Math.random() returning random
StateVector_measureQubit(S0, qubitIndex, random) ==
  LET bad == validateQubitIndex(S0, qubitIndex)
      S == invalidateProbabilityCache(S0)
      v == S.stateVector
      prob0 == SumOver(v, {i \in DOMAIN v : Bit(i, qubitIndex) = 0}, Zero)
      outcome == IF NumLess(random, prob0) THEN 0 ELSE 1
      kept == Collapsed(v, qubitIndex, outcome)
      normFactor == MathSqrt(SumOver(v, {i \in DOMAIN v : Bit(i, qubitIndex) = outcome}, Zero))
      threw == \E i \in DOMAIN kept :
                 (~isZero(kept[i])) /\ divide(kept[i], normFactor).err # NoError
  IN IF bad # NoError THEN [S |-> S0, err |-> bad, ret |-> 0, prob0 |-> Zero]
     ELSE IF threw
     THEN [S |-> S, err |-> Thrown("Division by zero", 0), ret |-> outcome, prob0 |-> prob0]
     ELSE [S |-> updateMemoryUsage([S EXCEPT !.stateVector = Renormalized(kept, normFactor)]),
           err |-> NoError, ret |-> outcome, prob0 |-> prob0]

setStateVector(S, newStateVector) ==
  LET expectedSize == Pow2(S.qubitCount)
      n == normalize([S EXCEPT !.stateVector = newStateVector])
  IN IF VLen(newStateVector) # expectedSize
     THEN [S |-> S, err |-> Thrown("Invalid state vector size", VLen(newStateVector))]
     ELSE IF n.err # NoError THEN n
     ELSE [S |-> updateMemoryUsage(invalidateProbabilityCache(n.S)), err |-> NoError]

StateVector_reset(S) ==
  LET init == initializeStateVector(S.qubitCount, S.maxQubits)
  IN IF init.err # NoError THEN [S |-> S, err |-> init.err]
     ELSE [S |-> updateMemoryUsage(
                   [invalidateProbabilityCache([S EXCEPT !.stateVector = init.val])
                      EXCEPT !.metrics.gateOperations = 0]),
           err |-> NoError]

\* getAmplitude(basisState)
getAmplitude(S, basisState) ==
  IF basisState >= VLen(S.stateVector)
  THEN [err |-> Thrown("Basis state index out of bounds", basisState), val |-> CZero]
  ELSE [err |-> NoError, val |-> S.stateVector[basisState]]

\* getProbability(basisState) of the state vector: the cached value if there is
\* one, else the value computed and cached
StateVector_getProbability(S, basisState) ==
  LET amplitude == getAmplitude(S, basisState)
      probability == magnitudeSquared(amplitude.val)
  IN IF basisState \in DOMAIN S.probabilityCache
     THEN [S |-> S, err |-> NoError, ret |-> S.probabilityCache[basisState]]
     ELSE IF amplitude.err # NoError THEN [S |-> S, err |-> amplitude.err, ret |-> Zero]
     ELSE [S |-> [S EXCEPT !.probabilityCache =
                             [i \in DOMAIN S.probabilityCache \cup {basisState} |->
                                IF i = basisState THEN probability
                                ELSE S.probabilityCache[i]]],
           err |-> NoError, ret |-> probability]

(* ------------------------------------------------------------------ *)
(* JavaScript Map: a function with a finite domain                      *)
(* ------------------------------------------------------------------ *)
EmptyMap == [x \in {} |-> 0]
MapHas(m, key) == key \in DOMAIN m
MapSet(m, key, value) == [x \in DOMAIN m \cup {key} |-> IF x = key THEN value ELSE m[x]]
MapDelete(m, key) == [x \in DOMAIN m \ {key} |-> m[x]]

(* ------------------------------------------------------------------ *)
(* The machine: the four objects initialize(config) wires together.     *)
(* A method of one of them takes the machine and returns the machine    *)
(* after the call, the error thrown (NoError if none) and its result.   *)
(* ------------------------------------------------------------------ *)

\* new QubitRegistry(stateVector)
NewQubitRegistry(maxQubits) ==
  [qubits |-> EmptyMap, entanglementGroups |-> EmptyMap, nextQubitIndex |-> 0,
   maxQubits |-> maxQubits]

\* new GateExecutor(stateVector, qubitRegistry)
NewGateExecutor == [metrics |-> [totalGatesExecuted |-> 0, gateTypeCount |-> EmptyMap]]

\* new MeasurementEngine(stateVector, qubitRegistry); timestamps are left out
NewMeasurementEngine ==
  [measurementResults |-> EmptyMap, measurementHistory |-> <<>>,
   metrics |-> [totalMeasurements |-> 0, outcomeCounts |-> <<0, 0>>]]

Ok(vm, ret) == [vm |-> vm, err |-> NoError, ret |-> ret]
Fail(vm, err) == [vm |-> vm, err |-> err, ret |-> 0 - 1]

\* an allocation that hands out the number of live handles as the bit position
allocateQubit_Repacking(vm, qubitId) ==
  LET R == vm.qubitRegistry
      qubitIndex == Cardinality(DOMAIN R.qubits)
      R1 == [R EXCEPT !.nextQubitIndex = qubitIndex + 1,
                      !.qubits = MapSet(R.qubits, qubitId, qubitIndex)]
      e == expandStateVector(vm.stateVector)
      R2 == [R1 EXCEPT !.entanglementGroups =
                          MapSet(R1.entanglementGroups, qubitId, {qubitId})]
  IN IF Cardinality(DOMAIN R.qubits) >= R.maxQubits
     THEN Fail(vm, Thrown("Cannot allocate more qubits", R.maxQubits))
     ELSE IF e.err # NoError
     THEN Fail([vm EXCEPT !.qubitRegistry = R1, !.stateVector = e.S], e.err)
     ELSE Ok([vm EXCEPT !.qubitRegistry = R2, !.stateVector = e.S], qubitId)

\* QubitRegistry.allocateQubit() with uuidv4() returning qubitId
allocateQubit(vm, qubitId) ==
  LET R == vm.qubitRegistry
      qubitIndex == R.nextQubitIndex
      R1 == [R EXCEPT !.nextQubitIndex = qubitIndex + 1,
                      !.qubits = MapSet(R.qubits, qubitId, qubitIndex)]
      e == expandStateVector(vm.stateVector)
      R2 == [R1 EXCEPT !.entanglementGroups =
                          MapSet(R1.entanglementGroups, qubitId, {qubitId})]
  IN IF Cardinality(DOMAIN R.qubits) >= R.maxQubits
     THEN Fail(vm, Thrown("Cannot allocate more qubits", R.maxQubits))
     ELSE IF e.err # NoError
     THEN Fail([vm EXCEPT !.qubitRegistry = R1, !.stateVector = e.S], e.err)
     ELSE Ok([vm EXCEPT !.qubitRegistry = R2, !.stateVector = e.S], qubitId)

\* QubitRegistry.deallocateQubit(qubitId); ret 1 is true, 0 is false
deallocateQubit(vm, qubitId) ==
  LET R == vm.qubitRegistry
      groups == [x \in DOMAIN R.entanglementGroups \ {qubitId} |->
                   R.entanglementGroups[x] \ {qubitId}]
  IN IF ~MapHas(R.qubits, qubitId) THEN Ok(vm, 0)
     ELSE IF ~MapHas(R.entanglementGroups, qubitId)
     THEN Fail(vm, Thrown("TypeError: reading size of undefined", qubitId))
     ELSE Ok([vm EXCEPT !.qubitRegistry =
                          [R EXCEPT !.entanglementGroups = groups,
                                    !.qubits = MapDelete(R.qubits, qubitId)]], 1)

\* QubitRegistry.getQubitIndex(qubitId)
getQubitIndex(vm, qubitId) ==
  IF MapHas(vm.qubitRegistry.qubits, qubitId)
  THEN Ok(vm, vm.qubitRegistry.qubits[qubitId])
  ELSE Fail(vm, Thrown("Qubit not found", qubitId))

\* QubitRegistry.recordEntanglement(qubitId1, qubitId2)
recordEntanglement(vm, qubitId1, qubitId2) ==
  LET g == vm.qubitRegistry.entanglementGroups
      mergedGroup == g[qubitId1] \cup g[qubitId2]
  IN IF ~MapHas(g, qubitId1) \/ ~MapHas(g, qubitId2)
     THEN Fail(vm, Thrown("One or both qubits not found", 0))
     ELSE Ok([vm EXCEPT !.qubitRegistry.entanglementGroups =
                          [x \in DOMAIN g \cup mergedGroup |->
                             IF x \in mergedGroup THEN mergedGroup ELSE g[x]]], 0)

\* QubitRegistry.areEntangled(qubitId1, qubitId2)
areEntangled(R, qubitId1, qubitId2) ==
  IF ~MapHas(R.entanglementGroups, qubitId1) THEN FALSE
  ELSE qubitId2 \in R.entanglementGroups[qubitId1]

\* QubitRegistry.reset()
QubitRegistry_reset(R) ==
  [R EXCEPT !.qubits = EmptyMap, !.entanglementGroups = EmptyMap, !.nextQubitIndex = 0]

(* ------------------------------------------------------------------ *)
(* GateExecutor (core/gate-executor.js)                                 *)
(* ------------------------------------------------------------------ *)
updateMetrics(vm, gateName) ==
  LET m == vm.gateExecutor.metrics
      currentCount == IF MapHas(m.gateTypeCount, gateName) THEN m.gateTypeCount[gateName] ELSE 0
  IN [vm EXCEPT !.gateExecutor.metrics =
                  [totalGatesExecuted |-> m.totalGatesExecuted + 1,
                   gateTypeCount |-> MapSet(m.gateTypeCount, gateName, currentCount + 1)]]

\* the machine after a StateVector method returned sv, counted as gateName
AfterKernel(vm, sv, gateName) ==
  IF sv.err # NoError THEN Fail([vm EXCEPT !.stateVector = sv.S], sv.err)
  ELSE Ok(updateMetrics([vm EXCEPT !.stateVector = sv.S], gateName), 0)

GateExecutor_applySingleQubitGate(vm, qubitId, gateName) ==
  LET q == getQubitIndex(vm, qubitId)
  IN IF q.err # NoError THEN q
     ELSE IF gateName \notin DOMAIN GATES THEN Fail(vm, Thrown("Unknown gate", 0))
     ELSE AfterKernel(vm, applySingleQubitGate(vm.stateVector, q.ret, GATES[gateName]),
                      gateName)

\* Math.cos(theta / 2) and Math.sin(theta / 2) for the angles of the model, to
\* the precision of the machine; the single precision pi is taken as pi
HalfCos(theta) == IF theta = "0" THEN One ELSE Zero
HalfSin(theta) ==
  IF theta = "0" THEN Zero ELSE IF theta = "-pi" THEN NumNeg(One) ELSE One

RotationMatrix(gateName, theta) ==
  LET cos == HalfCos(theta)
      sin == HalfSin(theta)
  IN IF gateName = "RX"
     THEN << <<Re(cos), Im(NumNeg(sin))>>, <<Im(NumNeg(sin)), Re(cos)>> >>
     ELSE IF gateName = "RY"
     THEN << <<Re(cos), Re(NumNeg(sin))>>, <<Re(sin), Re(cos)>> >>
     ELSE << <<ComplexNumber(cos, NumNeg(sin)), CZero>>, <<CZero, ComplexNumber(cos, sin)>> >>

\* applyRX, applyRY and applyRZ
GateExecutor_applyRotation(vm, qubitId, gateName, theta) ==
  LET q == getQubitIndex(vm, qubitId)
  IN IF q.err # NoError THEN q
     ELSE AfterKernel(vm, applySingleQubitGate(vm.stateVector, q.ret,
                                               RotationMatrix(gateName, theta)),
                      gateName)

GateExecutor_applyCNOT(vm, controlQubitId, targetQubitId) ==
  LET c == getQubitIndex(vm, controlQubitId)
      t == getQubitIndex(vm, targetQubitId)
      r == recordEntanglement(vm, controlQubitId, targetQubitId)
  IN IF c.err # NoError THEN c
     ELSE IF t.err # NoError THEN t
     ELSE IF r.err # NoError THEN r
     ELSE AfterKernel(r.vm, applyCNOT(r.vm.stateVector, c.ret, t.ret), "CNOT")

GateExecutor_applyCZ(vm, controlQubitId, targetQubitId) ==
  LET c == getQubitIndex(vm, controlQubitId)
      t == getQubitIndex(vm, targetQubitId)
      r == recordEntanglement(vm, controlQubitId, targetQubitId)
  IN IF c.err # NoError THEN c
     ELSE IF t.err # NoError THEN t
     ELSE IF r.err # NoError THEN r
     ELSE AfterKernel(r.vm, applyTwoQubitGate(r.vm.stateVector, c.ret, t.ret, CZMatrix), "CZ")

\* this.stateVector.applySWAP is not a function
GateExecutor_applySWAP(vm, qubitId1, qubitId2) ==
  LET a == getQubitIndex(vm, qubitId1)
      b == getQubitIndex(vm, qubitId2)
  IN IF a.err # NoError THEN a
     ELSE IF b.err # NoError THEN b
     ELSE Fail(vm, Thrown("TypeError: this.stateVector.applySWAP is not a function", 0))

Swap(v, i, j) == [x \in DOMAIN v |-> IF x = i THEN v[j] ELSE IF x = j THEN v[i] ELSE v[x]]

\* the in-place loop of applyToffoli from index i on
RECURSIVE ToffoliLoop(_, _, _, _, _)
ToffoliLoop(v, i, control1Index, control2Index, targetIndex) ==
  IF i >= VLen(v) THEN v
  ELSE ToffoliLoop(IF Bit(i, control1Index) = 1 /\ Bit(i, control2Index) = 1
                   THEN Swap(v, i, Flip(i, targetIndex)) ELSE v,
                   i + 1, control1Index, control2Index, targetIndex)

\* a write at flippedIndex beyond the array makes it longer than 2^qubitCount
Outgrown(v, controls, targetIndex) ==
  Pow2(targetIndex) >= VLen(v)
  /\ \E i \in DOMAIN v : \A c \in controls : Bit(i, c) = 1

GateExecutor_applyToffoli(vm, control1QubitId, control2QubitId, targetQubitId) ==
  LET c1 == getQubitIndex(vm, control1QubitId)
      c2 == getQubitIndex(vm, control2QubitId)
      t == getQubitIndex(vm, targetQubitId)
      r1 == recordEntanglement(vm, control1QubitId, targetQubitId)
      r2 == recordEntanglement(r1.vm, control2QubitId, targetQubitId)
      v == r2.vm.stateVector.stateVector
  IN IF c1.err # NoError THEN c1
     ELSE IF c2.err # NoError THEN c2
     ELSE IF t.err # NoError THEN t
     ELSE IF r1.err # NoError THEN r1
     ELSE IF r2.err # NoError THEN r2
     ELSE IF Outgrown(v, {c1.ret, c2.ret}, t.ret)
     THEN Fail(r2.vm, Thrown("Invalid state vector size", VLen(v) + 1))
     ELSE AfterKernel(r2.vm,
                      setStateVector(r2.vm.stateVector,
                                     ToffoliLoop(v, 0, c1.ret, c2.ret, t.ret)),
                      "Toffoli")

\* the in-place loop of applyControlledGate from index i on
RECURSIVE ControlledLoop(_, _, _, _, _)
ControlledLoop(v, i, controlIndex, targetIndex, g) ==
  IF i >= VLen(v) THEN v
  ELSE LET flippedIndex == Flip(i, targetIndex)
           originalAmp == v[i]
           w == IF Bit(i, controlIndex) = 0 THEN v
                ELSE IF Bit(i, targetIndex) = 0
                THEN [x \in DOMAIN v |->
                        IF x = i THEN multiply(originalAmp, At(g, 0, 0))
                        ELSE IF x = flippedIndex THEN multiply(originalAmp, At(g, 1, 0))
                        ELSE v[x]]
                ELSE [x \in DOMAIN v |->
                        IF x = flippedIndex THEN multiply(originalAmp, At(g, 0, 1))
                        ELSE IF x = i THEN multiply(originalAmp, At(g, 1, 1))
                        ELSE v[x]]
       IN ControlledLoop(w, i + 1, controlIndex, targetIndex, g)

GateExecutor_applyControlledGate(vm, controlQubitId, targetQubitId, gateMatrix) ==
  LET c == getQubitIndex(vm, controlQubitId)
      t == getQubitIndex(vm, targetQubitId)
      r == recordEntanglement(vm, controlQubitId, targetQubitId)
      v == r.vm.stateVector.stateVector
      set == setStateVector(r.vm.stateVector, ControlledLoop(v, 0, c.ret, t.ret, gateMatrix))
  IN IF c.err # NoError THEN c
     ELSE IF t.err # NoError THEN t
     ELSE IF r.err # NoError THEN r
     ELSE IF Outgrown(v, {c.ret}, t.ret)
     THEN Fail(r.vm, Thrown("Invalid state vector size", VLen(v) + 1))
     ELSE IF set.err # NoError THEN Fail([r.vm EXCEPT !.stateVector = set.S], set.err)
     ELSE AfterKernel(r.vm, normalize(set.S), "ControlledCustom")

\* what follows the measurement m in resetQubit(qubitId): X if it gave 1, then
\* the count of 'Reset'
AfterResetMeasurement(vm, m, qubitId, flipped) ==
  IF m.err # NoError THEN Fail([vm EXCEPT !.stateVector = m.S], m.err)
  ELSE IF m.ret # 1 THEN Ok(updateMetrics([vm EXCEPT !.stateVector = m.S], "Reset"), 0)
  ELSE IF flipped.err # NoError THEN flipped
  ELSE Ok(updateMetrics(flipped.vm, "Reset"), 0)

\* resetQubit(qubitId) with Math.random() returning random
GateExecutor_resetQubit(vm, qubitId, random) ==
  LET q == getQubitIndex(vm, qubitId)
  IN IF q.err # NoError THEN q
     ELSE AfterResetMeasurement(
            vm, StateVector_measureQubit(vm.stateVector, q.ret, random), qubitId,
            GateExecutor_applySingleQubitGate(
              [vm EXCEPT !.stateVector =
                           StateVector_measureQubit(vm.stateVector, q.ret, random).S],
              qubitId, "X"))

(* ------------------------------------------------------------------ *)
(* MeasurementEngine (core/measurement-engine.js)                       *)
(* ------------------------------------------------------------------ *)

\* getProbability(qubitId, outcome), given the qubit's index
getProbability(S, qubitIndex, outcome) ==
  SumOver(S.stateVector,
          {i \in 0..(Pow2(S.qubitCount) - 1) : Bit(i, qubitIndex) = outcome}, Zero)

\* measureQubit as it would be if the nonCollapsing flag were not honoured
MeasurementEngine_measureQubit_Collapsing(vm, qubitId, nonCollapsing, random) ==
  LET q == getQubitIndex(vm, qubitId)
      m == StateVector_measureQubit(vm.stateVector, q.ret, random)
      M == vm.measurementEngine
      counts == M.metrics.outcomeCounts
  IN IF q.err # NoError THEN q
     ELSE IF m.err # NoError THEN Fail([vm EXCEPT !.stateVector = m.S], m.err)
     ELSE Ok([vm EXCEPT
                !.stateVector = m.S,
                !.measurementEngine =
                   [measurementResults |-> MapSet(M.measurementResults, qubitId, m.ret),
                    measurementHistory |->
                       Append(M.measurementHistory, [qubitId |-> qubitId, result |-> m.ret]),
                    metrics |->
                       [totalMeasurements |-> M.metrics.totalMeasurements + 1,
                        outcomeCounts |-> [counts EXCEPT ![m.ret + 1] = counts[m.ret + 1] + 1]]]],
             m.ret)

\* measureQubit putting its record at the front of the history
MeasurementEngine_measureQubit_Prepending(vm, qubitId, nonCollapsing, random) ==
  LET q == getQubitIndex(vm, qubitId)
      prob0 == getProbability(vm.stateVector, q.ret, 0)
      m == StateVector_measureQubit(vm.stateVector, q.ret, random)
      M == vm.measurementEngine
      counts == M.metrics.outcomeCounts
  IN IF q.err # NoError THEN q
     ELSE IF nonCollapsing THEN Ok(vm, IF NumLess(random, prob0) THEN 0 ELSE 1)
     ELSE IF m.err # NoError THEN Fail([vm EXCEPT !.stateVector = m.S], m.err)
     ELSE Ok([vm EXCEPT
                !.stateVector = m.S,
                !.measurementEngine =
                   [measurementResults |-> MapSet(M.measurementResults, qubitId, m.ret),
                    measurementHistory |->
                       <<[qubitId |-> qubitId, result |-> m.ret]>> \o M.measurementHistory,
                    metrics |->
                       [totalMeasurements |-> M.metrics.totalMeasurements + 1,
                        outcomeCounts |-> [counts EXCEPT ![m.ret + 1] = counts[m.ret + 1] + 1]]]],
             m.ret)

\* measureQubit(qubitId, nonCollapsing) with Math.random() returning random
MeasurementEngine_measureQubit(vm, qubitId, nonCollapsing, random) ==
  LET q == getQubitIndex(vm, qubitId)
      prob0 == getProbability(vm.stateVector, q.ret, 0)
      m == StateVector_measureQubit(vm.stateVector, q.ret, random)
      M == vm.measurementEngine
      counts == M.metrics.outcomeCounts
  IN IF q.err # NoError THEN q
     ELSE IF nonCollapsing THEN Ok(vm, IF NumLess(random, prob0) THEN 0 ELSE 1)
     ELSE IF m.err # NoError THEN Fail([vm EXCEPT !.stateVector = m.S], m.err)
     ELSE Ok([vm EXCEPT
                !.stateVector = m.S,
                !.measurementEngine =
                   [measurementResults |-> MapSet(M.measurementResults, qubitId, m.ret),
                    measurementHistory |->
                       Append(M.measurementHistory, [qubitId |-> qubitId, result |-> m.ret]),
                    metrics |->
                       [totalMeasurements |-> M.metrics.totalMeasurements + 1,
                        outcomeCounts |-> [counts EXCEPT ![m.ret + 1] = counts[m.ret + 1] + 1]]]],
             m.ret)

\* the elements of a set of numbers in ascending order
RECURSIVE Ascending(_)
Ascending(set) ==
  IF set = {} THEN <<>>
  ELSE LET least == CHOOSE x \in set : \A y \in set : x <= y
       IN <<least>> \o Ascending(set \ {least})

\* QubitRegistry.getAllQubits(): the keys of the map in insertion order; identifiers
\* are issued in ascending order and never inserted twice
getAllQubits(R) == Ascending(DOMAIN R.qubits)

\* measureQubits(qubitIds, nonCollapsing): randoms are the values Math.random()
\* returns, one for each measurement; ret is the Map of results
RECURSIVE MeasurementEngine_measureQubits(_, _, _, _, _)
\* the rest of the loop once measureQubit has returned m for the first identifier
MeasuredFirst(m, qubitIds, nonCollapsing, randoms, results) ==
  IF m.err # NoError THEN [vm |-> m.vm, err |-> m.err, ret |-> results]
  ELSE MeasurementEngine_measureQubits(m.vm, Tail(qubitIds), nonCollapsing, Tail(randoms),
                                       MapSet(results, Head(qubitIds), m.ret))

MeasurementEngine_measureQubits(vm, qubitIds, nonCollapsing, randoms, results) ==
  IF qubitIds = <<>> THEN [vm |-> vm, err |-> NoError, ret |-> results]
  ELSE MeasuredFirst(MeasurementEngine_measureQubit(vm, Head(qubitIds), nonCollapsing,
                                                    Head(randoms)),
                     qubitIds, nonCollapsing, randoms, results)

\* getProbability(qubitId, outcome) of the engine
MeasurementEngine_getProbability(vm, qubitId, outcome) ==
  LET q == getQubitIndex(vm, qubitId)
  IN IF outcome \notin {0, 1} THEN Fail(vm, Thrown("Outcome must be 0 or 1", outcome))
     ELSE IF q.err # NoError THEN q
     ELSE Ok(vm, getProbability(vm.stateVector, q.ret, outcome))

\* the first entry of outcomeMap, in the order of its keys, that makes
\* getJointProbability throw, or NoError
RECURSIVE JointPairsError(_, _, _)
JointPairsError(vm, outcomeMap, keys) ==
  IF keys = <<>> THEN NoError
  ELSE IF outcomeMap[Head(keys)] \notin {0, 1}
  THEN Thrown("Outcomes must be 0 or 1", outcomeMap[Head(keys)])
  ELSE IF getQubitIndex(vm, Head(keys)).err # NoError
  THEN getQubitIndex(vm, Head(keys)).err
  ELSE JointPairsError(vm, outcomeMap, Tail(keys))

\* getJointProbability(outcomeMap)
getJointProbability(vm, outcomeMap) ==
  LET S == vm.stateVector
      err == JointPairsError(vm, outcomeMap, Ascending(DOMAIN outcomeMap))
      matches(i) == \A qubitId \in DOMAIN outcomeMap :
                      Bit(i, vm.qubitRegistry.qubits[qubitId]) = outcomeMap[qubitId]
  IN IF err # NoError THEN Fail(vm, err)
     ELSE Ok(vm, SumOver(S.stateVector,
                         {i \in 0..(Pow2(S.qubitCount) - 1) : matches(i)}, Zero))

\* measureAllQubits(): the measurements are made first; the pairs that are then
\* sorted are those of Array.prototype.entries(), [array index, identifier], so
\* that the comparator and the loop look up an array index where an identifier
\* is meant.  No array index is an identifier.  With one qubit the comparator
\* is not called and measurements.get(0) is undefined; with more the first call
\* of the comparator throws from getQubitIndex.  ret is the bit string as a
\* sequence of digits.  SortedAndJoined is the part after measureQubits.
SortedAndJoined(measurements, qubitIds) ==
  IF measurements.err # NoError THEN Fail(measurements.vm, measurements.err)
  ELSE IF Len(qubitIds) = 0 THEN Ok(measurements.vm, <<>>)
  ELSE IF Len(qubitIds) = 1
  THEN Fail(measurements.vm, Thrown("TypeError: Cannot read properties of undefined", 0))
  ELSE Fail(measurements.vm, Thrown("Qubit not found", 0))

MeasurementEngine_measureAllQubits(vm, randoms) ==
  SortedAndJoined(MeasurementEngine_measureQubits(vm, getAllQubits(vm.qubitRegistry), FALSE,
                                                  randoms, EmptyMap),
                  getAllQubits(vm.qubitRegistry))

\* 2^-20: the probabilities of the model are sums of products of amplitudes in
\* the ring, none of which lies between 2^-20 and 0.000001
SampleThreshold == Num(1, 0, 20)

\* the string sample builds for basis state i, as a sequence of digits
BitString(i, qubitIndices) == [j \in 1..Len(qubitIndices) |-> Bit(i, qubitIndices[j])]

\* a property name that is an array index: "0", or digits that start with "1"
IntegerLike(key) == key = <<0>> \/ (Len(key) >= 1 /\ key[1] = 1)

RECURSIVE DecimalValue(_, _)
DecimalValue(key, acc) ==
  IF key = <<>> THEN acc ELSE DecimalValue(Tail(key), 10 * acc + Head(key))

\* Object.entries(outcomes): the integer-like names in ascending numeric order,
\* then the other names in the order of their creation; first gives the basis
\* state that created a name
RECURSIVE EntriesOrder(_, _)
EntriesOrder(keys, first) ==
  IF keys = {} THEN <<>>
  ELSE LET before(x, y) ==
             IF IntegerLike(x) /\ IntegerLike(y)
             THEN DecimalValue(x, 0) <= DecimalValue(y, 0)
             ELSE IF IntegerLike(x) # IntegerLike(y) THEN IntegerLike(x)
             ELSE first[x] <= first[y]
           least == CHOOSE x \in keys : \A y \in keys : before(x, y)
       IN <<least>> \o EntriesOrder(keys \ {least}, first)

\* the outcome one shot counts for the draw rand, or <<-1>> when the loop ends
\* without counting
RECURSIVE ShotOutcome(_, _, _, _)
ShotOutcome(entries, outcomes, rand, cumulativeProbability) ==
  IF entries = <<>> THEN <<0 - 1>>
  ELSE LET next == NumAdd(cumulativeProbability, outcomes[Head(entries)])
       IN IF NumLess(rand, next) THEN Head(entries)
          ELSE ShotOutcome(Tail(entries), outcomes, rand, next)

\* sample(shots) over all qubits; randoms are the values of Math.random(), one
\* for each shot; ret is the object counts
sample(vm, shots, randoms) ==
  LET v == vm.stateVector.stateVector
      qubitsToMeasure == getAllQubits(vm.qubitRegistry)
      qubitIndices == [j \in 1..Len(qubitsToMeasure) |->
                         vm.qubitRegistry.qubits[qubitsToMeasure[j]]]
      considered == {i \in 0..(VLen(v) - 1) :
                       NumLess(SampleThreshold, magnitudeSquared(v[i]))}
      keys == {BitString(i, qubitIndices) : i \in considered}
      members(key) == {i \in considered : BitString(i, qubitIndices) = key}
      outcomes == [key \in keys |-> SumOver(v, members(key), Zero)]
      first == [key \in keys |-> CHOOSE i \in members(key) : \A m \in members(key) : i <= m]
      entries == EntriesOrder(keys, first)
      drawn == [s \in 1..shots |-> ShotOutcome(entries, outcomes, randoms[s], Zero)]
      counted == {drawn[s] : s \in 1..shots} \ {<<0 - 1>>}
  IN IF shots <= 0 THEN Fail(vm, Thrown("Number of shots must be positive", shots))
     ELSE Ok(vm, [key \in counted |-> Cardinality({s \in 1..shots : drawn[s] = key})])

\* MeasurementEngine.reset()
MeasurementEngine_reset(M) == NewMeasurementEngine

(* ------------------------------------------------------------------ *)
(* Quantum bytecode (types/quantum-types.js, types/qbc.js).  A Buffer   *)
(* is a sequence of bytes; offset o is element o + 1.                   *)
(* ------------------------------------------------------------------ *)
QBCOpcode ==
  [ALLOCATE_QUBIT |-> 1, DEALLOCATE_QUBIT |-> 2,
   GATE_X |-> 16, GATE_Y |-> 17, GATE_Z |-> 18, GATE_H |-> 19, GATE_S |-> 20, GATE_T |-> 21,
   GATE_RX |-> 32, GATE_RY |-> 33, GATE_RZ |-> 34, GATE_PHASE |-> 35,
   GATE_CNOT |-> 48, GATE_CZ |-> 49, GATE_SWAP |-> 50, GATE_ISWAP |-> 51,
   GATE_TOFFOLI |-> 64, GATE_FREDKIN |-> 65,
   MEASURE_QUBIT |-> 80, MEASURE_ALL |-> 81,
   CONDITIONAL_JUMP |-> 96, JUMP |-> 97,
   STORE_CLASSICAL |-> 112, LOAD_CLASSICAL |-> 113,
   ADD_CLASSICAL |-> 128, SUB_CLASSICAL |-> 129, MUL_CLASSICAL |-> 130, DIV_CLASSICAL |-> 131,
   AND_CLASSICAL |-> 144, OR_CLASSICAL |-> 145, XOR_CLASSICAL |-> 146, NOT_CLASSICAL |-> 147,
   CMP_EQ_CLASSICAL |-> 160, CMP_NEQ_CLASSICAL |-> 161, CMP_LT_CLASSICAL |-> 162,
   CMP_GT_CLASSICAL |-> 163,
   END |-> 255]

OpcodeValues == {QBCOpcode[n] : n \in DOMAIN QBCOpcode}

\* 'QBC\0' and QBC_VERSION
QBC_MAGIC == <<81, 66, 67, 0>>
QBC_VERSION == 1

\* reading past the end of a buffer by index gives undefined
Undefined == 0 - 1

ByteAt(buffer, offset) ==
  IF offset >= 0 /\ offset < Len(buffer) THEN buffer[offset + 1] ELSE Undefined

\* the angles of the model with the bytes of the nearest IEEE-754 single
\* precision number: "pi" is the double Math.PI, "fround(pi)" the single
\* 3.1415927410125732 it is rounded to; single says that an angle is a single
\* precision number itself
FloatTable ==
  << [theta |-> "0", bytes |-> <<0, 0, 0, 0>>, single |-> TRUE],
     [theta |-> "pi", bytes |-> <<219, 15, 73, 64>>, single |-> FALSE],
     [theta |-> "fround(pi)", bytes |-> <<219, 15, 73, 64>>, single |-> TRUE] >>

writeFloatLE(theta) ==
  (CHOOSE e \in {FloatTable[i] : i \in DOMAIN FloatTable} : e.theta = theta).bytes

writeUInt16LE(value) == <<value % 256, (value \div 256) % 256>>

writeUInt32LE(value) ==
  <<value % 256, (value \div 256) % 256, (value \div 65536) % 256,
    (value \div 16777216) % 256>>

\* two's complement; \div rounds down and % is never negative
writeInt32LE(value) == writeUInt32LE(value)

OutOfRange(buffer, offset, width) == offset < 0 \/ offset + width > Len(buffer)

readUInt16LE(buffer, offset) == ByteAt(buffer, offset) + 256 * ByteAt(buffer, offset + 1)

readUInt32LE(buffer, offset) ==
  ByteAt(buffer, offset) + 256 * ByteAt(buffer, offset + 1)
    + 65536 * ByteAt(buffer, offset + 2) + 16777216 * ByteAt(buffer, offset + 3)

readInt32LE(buffer, offset) ==
  LET top == ByteAt(buffer, offset + 3)
  IN ByteAt(buffer, offset) + 256 * ByteAt(buffer, offset + 1)
       + 65536 * ByteAt(buffer, offset + 2)
       + 16777216 * (IF top >= 128 THEN top - 256 ELSE top)

readFloatLE(buffer, offset) ==
  (CHOOSE e \in {FloatTable[i] : i \in DOMAIN FloatTable} :
     /\ e.single
     /\ e.bytes = <<ByteAt(buffer, offset), ByteAt(buffer, offset + 1),
                    ByteAt(buffer, offset + 2), ByteAt(buffer, offset + 3)>>).theta

Instr(op, params) == [op |-> op, params |-> params]

\* getParameterSize(op, params); Undefined where the source throws
getParameterSize(op) ==
  LET O == QBCOpcode
  IN IF op \in {O.ALLOCATE_QUBIT, O.DEALLOCATE_QUBIT} THEN 1
     ELSE IF op \in {O.GATE_X, O.GATE_Y, O.GATE_Z, O.GATE_H, O.GATE_S, O.GATE_T} THEN 1
     ELSE IF op \in {O.GATE_RX, O.GATE_RY, O.GATE_RZ, O.GATE_PHASE} THEN 5
     ELSE IF op \in {O.GATE_CNOT, O.GATE_CZ, O.GATE_SWAP, O.GATE_ISWAP} THEN 2
     ELSE IF op \in {O.GATE_TOFFOLI, O.GATE_FREDKIN} THEN 3
     ELSE IF op = O.MEASURE_QUBIT THEN 2
     ELSE IF op = O.CONDITIONAL_JUMP THEN 5
     ELSE IF op = O.JUMP THEN 4
     ELSE IF op = O.STORE_CLASSICAL THEN 5
     ELSE IF op = O.LOAD_CLASSICAL THEN 2
     ELSE IF op \in {O.ADD_CLASSICAL, O.SUB_CLASSICAL, O.MUL_CLASSICAL, O.DIV_CLASSICAL,
                     O.AND_CLASSICAL, O.OR_CLASSICAL, O.XOR_CLASSICAL,
                     O.CMP_EQ_CLASSICAL, O.CMP_NEQ_CLASSICAL, O.CMP_LT_CLASSICAL,
                     O.CMP_GT_CLASSICAL} THEN 3
     ELSE IF op = O.NOT_CLASSICAL THEN 2
     ELSE IF op \in {O.END, O.MEASURE_ALL} THEN 0
     ELSE Undefined

\* the bytes encodeInstruction writes for an opcode of QBCOpcode
EncodedBytes(op, params) ==
  LET O == QBCOpcode
  IN IF op \in {O.GATE_RX, O.GATE_RY, O.GATE_RZ, O.GATE_PHASE}
     THEN <<op, params[1]>> \o writeFloatLE(params[2])
     ELSE IF op = O.CONDITIONAL_JUMP THEN <<op, params[1]>> \o writeUInt32LE(params[2])
     ELSE IF op = O.JUMP THEN <<op>> \o writeUInt32LE(params[1])
     ELSE IF op = O.STORE_CLASSICAL THEN <<op, params[1]>> \o writeInt32LE(params[2])
     ELSE <<op>> \o [i \in 1..getParameterSize(op) |-> params[i]]

\* encodeInstruction(instruction)
encodeInstruction(instruction) ==
  IF instruction.op \notin OpcodeValues
  THEN [err |-> Thrown("Invalid opcode", instruction.op), buffer |-> <<>>]
  ELSE [err |-> NoError, buffer |-> EncodedBytes(instruction.op, instruction.params)]

\* instructions.map(encodeInstruction), the buffers laid end to end
RECURSIVE EncodeAll(_)
EncodeAll(instructions) ==
  IF instructions = <<>> THEN <<>>
  ELSE encodeInstruction(Head(instructions)).buffer \o EncodeAll(Tail(instructions))

\* JSON.stringify(metadata) as UTF-8 for an object whose property names are
\* single letters (given by their code) and whose values are digits:
\* {"a":1,"b":2}
RECURSIVE StringifyMembers(_, _)
StringifyMembers(object, names) ==
  IF names = <<>> THEN <<>>
  ELSE (IF Len(names) < Cardinality(DOMAIN object) THEN <<44>> ELSE <<>>)
         \o <<34, Head(names), 34, 58, 48 + object[Head(names)]>>
         \o StringifyMembers(object, Tail(names))

JSONStringify(object) ==
  <<123>> \o StringifyMembers(object, Ascending(DOMAIN object)) \o <<125>>

\* the members JSON.parse reads from text after the opening brace; object is
\* what was read so far
RECURSIVE ParseMembers(_, _)
ParseMembers(text, object) ==
  IF text = <<125>> /\ object = EmptyMap THEN [err |-> NoError, val |-> object]
  ELSE IF Len(text) >= 6 /\ text[1] = 34 /\ text[3] = 34 /\ text[4] = 58
          /\ text[5] \in 48..57 /\ text[2] \in 97..122
  THEN IF SubSeq(text, 6, Len(text)) = <<125>>
       THEN [err |-> NoError, val |-> MapSet(object, text[2], text[5] - 48)]
       ELSE IF text[6] = 44
       THEN ParseMembers(SubSeq(text, 7, Len(text)), MapSet(object, text[2], text[5] - 48))
       ELSE [err |-> Thrown("SyntaxError", 0), val |-> EmptyMap]
  ELSE [err |-> Thrown("SyntaxError", 0), val |-> EmptyMap]

\* JSON.parse(text) for such an object
JSONParse(text) ==
  IF Len(text) >= 2 /\ text[1] = 123 THEN ParseMembers(Tail(text), EmptyMap)
  ELSE [err |-> Thrown("SyntaxError", 0), val |-> EmptyMap]

\* the maxQubits option of createQBC when none is given
DefaultQBCMaxQubits == 8

\* the options of createQBC when none are given
DefaultOptions == [maxQubits |-> DefaultQBCMaxQubits, metadata |-> EmptyMap]

\* headerSize of createQBC and the start offset of parseQBC
HeaderSize == 20

\* the first instruction encodeInstruction throws for, or NoError
RECURSIVE EncodeError(_)
EncodeError(instructions) ==
  IF instructions = <<>> THEN NoError
  ELSE IF encodeInstruction(Head(instructions)).err # NoError
  THEN encodeInstruction(Head(instructions)).err
  ELSE EncodeError(Tail(instructions))

\* createQBC(instructions, options); writeUInt16LE throws for a value above 65535
createQBC(instructions, options) ==
  LET data == EncodeAll(instructions)
      metadataBuffer == JSONStringify(options.metadata)
  IN IF EncodeError(instructions) # NoError
     THEN [err |-> EncodeError(instructions), buffer |-> <<>>]
     ELSE IF options.maxQubits > 65535
     THEN [err |-> Thrown("RangeError: out of range", options.maxQubits), buffer |-> <<>>]
     ELSE [err |-> NoError,
           buffer |-> QBC_MAGIC \o writeUInt16LE(QBC_VERSION)
                        \o writeUInt16LE(options.maxQubits)
                        \o writeUInt32LE(Len(instructions)) \o writeUInt32LE(Len(data))
                        \o writeUInt32LE(Len(metadataBuffer)) \o data \o metadataBuffer]

\* decodeInstruction(buffer, offset)
decodeInstruction(buffer, offset) ==
  LET O == QBCOpcode
      op == ByteAt(buffer, offset)
      size == getParameterSize(op)
      bytes == [i \in 1..size |-> ByteAt(buffer, offset + i)]
      wide == op \in {O.GATE_RX, O.GATE_RY, O.GATE_RZ, O.GATE_PHASE, O.CONDITIONAL_JUMP,
                      O.STORE_CLASSICAL}
      params == IF op = O.JUMP THEN <<readUInt32LE(buffer, offset + 1)>>
                ELSE IF op = O.CONDITIONAL_JUMP
                THEN <<bytes[1], readUInt32LE(buffer, offset + 2)>>
                ELSE IF op = O.STORE_CLASSICAL
                THEN <<bytes[1], readInt32LE(buffer, offset + 2)>>
                ELSE IF wide THEN <<bytes[1], readFloatLE(buffer, offset + 2)>>
                ELSE bytes
  IN IF size = Undefined
     THEN [err |-> Thrown("Unknown opcode", op), instruction |-> Instr(op, <<>>), bytesRead |-> 0]
     ELSE IF (op = O.JUMP /\ OutOfRange(buffer, offset + 1, 4))
             \/ (wide /\ OutOfRange(buffer, offset + 2, 4))
     THEN [err |-> Thrown("RangeError: out of range", offset),
           instruction |-> Instr(op, <<>>), bytesRead |-> 0]
     ELSE [err |-> NoError, instruction |-> Instr(op, params), bytesRead |-> 1 + size]

\* the loop of parseQBC reading count instructions from offset on
RECURSIVE DecodeAll(_, _, _, _)
DecodeAll(buffer, offset, count, acc) ==
  IF count = 0 THEN [err |-> NoError, instructions |-> acc, offset |-> offset]
  ELSE LET d == decodeInstruction(buffer, offset)
       IN IF d.err # NoError THEN [err |-> d.err, instructions |-> acc, offset |-> offset]
          ELSE DecodeAll(buffer, offset + d.bytesRead, count - 1, Append(acc, d.instruction))

\* the metadata parseQBC returns: {} when metadataSize is 0 or JSON.parse throws
ParsedMetadata(buffer, offset, metadataSize) ==
  LET end == IF offset + metadataSize > Len(buffer) THEN Len(buffer)
             ELSE offset + metadataSize
      parsed == JSONParse(SubSeq(buffer, offset + 1, end))
  IN IF metadataSize > 0 /\ parsed.err = NoError THEN parsed.val ELSE EmptyMap

\* parseQBC(buffer)
parseQBC(buffer) ==
  LET magic == [i \in 1..4 |-> ByteAt(buffer, i - 1)]
      version == readUInt16LE(buffer, 4)
      instructionCount == readUInt32LE(buffer, 8)
      body == DecodeAll(buffer, HeaderSize, instructionCount, <<>>)
      none == [magic |-> magic, version |-> 0, qubits |-> 0, instructionCount |-> 0,
               dataSize |-> 0, metadataSize |-> 0]
      failed(err) == [err |-> err, header |-> none, instructions |-> <<>>,
                      metadata |-> EmptyMap]
  IN IF magic # QBC_MAGIC THEN failed(Thrown("Invalid QBC magic number", 0))
     ELSE IF OutOfRange(buffer, 4, 2) THEN failed(Thrown("RangeError: out of range", 4))
     ELSE IF version # QBC_VERSION THEN failed(Thrown("Unsupported QBC version", version))
     ELSE IF OutOfRange(buffer, 16, 4)
     THEN failed(Thrown("RangeError: out of range", Len(buffer)))
     ELSE [err |-> body.err,
           header |-> [magic |-> magic, version |-> version,
                       qubits |-> readUInt16LE(buffer, 6),
                       instructionCount |-> instructionCount,
                       dataSize |-> readUInt32LE(buffer, 12),
                       metadataSize |-> readUInt32LE(buffer, 16)],
           instructions |-> body.instructions,
           metadata |-> ParsedMetadata(buffer, body.offset, readUInt32LE(buffer, 16))]

(* ------------------------------------------------------------------ *)
(* BytecodeInterpreter (core/bytecode-interpreter.js).  error is the    *)
(* caught error or NoError for null; jumpTargets is the key set of the  *)
(* map; a hook is TRUE when a callback is installed; executionTime is   *)
(* left out.                                                            *)
(* ------------------------------------------------------------------ *)
NoMetrics == [instructionsExecuted |-> 0, classicalOps |-> 0, quantumOps |-> 0, jumpOps |-> 0]

\* new BytecodeInterpreter(qubitRegistry, gateExecutor, measurementEngine)
NewBytecodeInterpreter ==
  [pc |-> 0, bytecode |-> <<>>, running |-> FALSE, error |-> NoError,
   classicalMemory |-> EmptyMap, qubitIdMap |-> EmptyMap, jumpTargets |-> {},
   metrics |-> NoMetrics,
   hooks |-> [beforeInstruction |-> FALSE, afterInstruction |-> FALSE, onError |-> FALSE]]

MapGet(m, key) == IF key \in DOMAIN m THEN m[key] ELSE Undefined

getOpcodeOperandSize(opcode) ==
  LET O == QBCOpcode
  IN IF opcode \in {O.ALLOCATE_QUBIT, O.DEALLOCATE_QUBIT} THEN 1
     ELSE IF opcode \in {O.GATE_X, O.GATE_Y, O.GATE_Z, O.GATE_H, O.GATE_S, O.GATE_T} THEN 1
     ELSE IF opcode \in {O.GATE_RX, O.GATE_RY, O.GATE_RZ} THEN 5
     ELSE IF opcode \in {O.GATE_CNOT, O.GATE_CZ, O.GATE_SWAP} THEN 2
     ELSE IF opcode = O.GATE_TOFFOLI THEN 3
     ELSE IF opcode = O.MEASURE_QUBIT THEN 2
     ELSE IF opcode = O.CONDITIONAL_JUMP THEN 5
     ELSE IF opcode = O.JUMP THEN 4
     ELSE IF opcode = O.STORE_CLASSICAL THEN 5
     ELSE IF opcode = O.LOAD_CLASSICAL THEN 2
     ELSE IF opcode \in {O.ADD_CLASSICAL, O.SUB_CLASSICAL, O.MUL_CLASSICAL, O.DIV_CLASSICAL,
                         O.AND_CLASSICAL, O.OR_CLASSICAL, O.XOR_CLASSICAL,
                         O.CMP_EQ_CLASSICAL, O.CMP_NEQ_CLASSICAL, O.CMP_LT_CLASSICAL,
                         O.CMP_GT_CLASSICAL} THEN 3
     ELSE IF opcode = O.NOT_CLASSICAL THEN 2
     ELSE 0

\* the loop of scanJumpTargets from pc on
RECURSIVE scanJumpTargets(_, _, _)
scanJumpTargets(bytecode, pc, targets) ==
  IF pc >= Len(bytecode) THEN [err |-> NoError, jumpTargets |-> targets]
  ELSE LET opcode == ByteAt(bytecode, pc)
       IN IF opcode \in {QBCOpcode.JUMP, QBCOpcode.CONDITIONAL_JUMP}
          THEN IF OutOfRange(bytecode, pc + 1, 4)
               THEN [err |-> Thrown("RangeError: out of range", pc + 1),
                     jumpTargets |-> targets]
               ELSE scanJumpTargets(bytecode, pc + 1 + 4,
                                    targets \cup {readUInt32LE(bytecode, pc + 1)})
          ELSE scanJumpTargets(bytecode, pc + 1 + getOpcodeOperandSize(opcode), targets)

loadBytecode(B, bytecode) ==
  LET scan == scanJumpTargets(bytecode, 0, {})
  IN [B |-> [B EXCEPT !.bytecode = bytecode, !.pc = 0, !.error = NoError,
                      !.classicalMemory = EmptyMap, !.qubitIdMap = EmptyMap,
                      !.jumpTargets = scan.jumpTargets],
      err |-> scan.err]

\* BytecodeInterpreter.reset()
BytecodeInterpreter_reset(B) ==
  [B EXCEPT !.pc = 0, !.running = FALSE, !.error = NoError,
            !.classicalMemory = EmptyMap, !.qubitIdMap = EmptyMap, !.jumpTargets = {},
            !.metrics = NoMetrics]

\* this.bytecode[this.pc++]: the byte read and the machine after the increment
Fetch(vm) ==
  [byte |-> ByteAt(vm.bytecodeInterpreter.bytecode, vm.bytecodeInterpreter.pc),
   vm |-> [vm EXCEPT !.bytecodeInterpreter.pc = vm.bytecodeInterpreter.pc + 1]]

\* this.qubitIdMap.set(qubitRef, qubitId) once allocateQubit() has returned a
MapQubit(a, qubitRef) ==
  IF a.err # NoError THEN a
  ELSE Ok([a.vm EXCEPT !.bytecodeInterpreter.qubitIdMap =
                         MapSet(a.vm.bytecodeInterpreter.qubitIdMap, qubitRef, a.ret)], 0)

executeAllocateQubit(vm, uuid) ==
  LET f == Fetch(vm)
  IN MapQubit(allocateQubit(f.vm, uuid), f.byte)

\* this.qubitIdMap.delete(qubitRef) once deallocateQubit() has returned d
UnmapQubit(d, qubitRef) ==
  IF d.err # NoError THEN d
  ELSE IF d.ret = 1
  THEN Ok([d.vm EXCEPT !.bytecodeInterpreter.qubitIdMap =
                         MapDelete(d.vm.bytecodeInterpreter.qubitIdMap, qubitRef)], 0)
  ELSE Ok(d.vm, 0)

\* a DEALLOC that passes over a reference it does not know
executeDeallocateQubit_Forgiving(vm) ==
  LET f == Fetch(vm)
      qubitId == MapGet(f.vm.bytecodeInterpreter.qubitIdMap, f.byte)
  IN IF qubitId = Undefined THEN Ok(f.vm, 0)
     ELSE UnmapQubit(deallocateQubit(f.vm, qubitId), f.byte)

executeDeallocateQubit(vm) ==
  LET f == Fetch(vm)
      qubitId == MapGet(f.vm.bytecodeInterpreter.qubitIdMap, f.byte)
  IN IF qubitId = Undefined THEN Fail(f.vm, Thrown("Invalid qubit reference", f.byte))
     ELSE UnmapQubit(deallocateQubit(f.vm, qubitId), f.byte)

executeSingleQubitGate(vm, gateName) ==
  LET f == Fetch(vm)
      qubitId == MapGet(f.vm.bytecodeInterpreter.qubitIdMap, f.byte)
  IN IF qubitId = Undefined THEN Fail(f.vm, Thrown("Invalid qubit reference", f.byte))
     ELSE GateExecutor_applySingleQubitGate(f.vm, qubitId, gateName)

executeRotationGate(vm, gateName) ==
  LET f == Fetch(vm)
      B == f.vm.bytecodeInterpreter
      qubitId == MapGet(B.qubitIdMap, f.byte)
      after == [f.vm EXCEPT !.bytecodeInterpreter.pc = B.pc + 4]
  IN IF qubitId = Undefined THEN Fail(f.vm, Thrown("Invalid qubit reference", f.byte))
     ELSE IF OutOfRange(B.bytecode, B.pc, 4)
     THEN Fail(f.vm, Thrown("RangeError: out of range", B.pc))
     ELSE GateExecutor_applyRotation(after, qubitId, gateName, readFloatLE(B.bytecode, B.pc))

executeTwoQubitGate(vm, gateName) ==
  LET f1 == Fetch(vm)
      f2 == Fetch(f1.vm)
      qubit1Id == MapGet(vm.bytecodeInterpreter.qubitIdMap, f1.byte)
      qubit2Id == MapGet(vm.bytecodeInterpreter.qubitIdMap, f2.byte)
  IN IF qubit1Id = Undefined THEN Fail(f2.vm, Thrown("Invalid qubit reference", f1.byte))
     ELSE IF qubit2Id = Undefined THEN Fail(f2.vm, Thrown("Invalid qubit reference", f2.byte))
     ELSE IF gateName = "CNOT" THEN GateExecutor_applyCNOT(f2.vm, qubit1Id, qubit2Id)
     ELSE IF gateName = "CZ" THEN GateExecutor_applyCZ(f2.vm, qubit1Id, qubit2Id)
     ELSE GateExecutor_applySWAP(f2.vm, qubit1Id, qubit2Id)

executeThreeQubitGate(vm, gateName) ==
  LET f1 == Fetch(vm)
      f2 == Fetch(f1.vm)
      f3 == Fetch(f2.vm)
      qubit1Id == MapGet(vm.bytecodeInterpreter.qubitIdMap, f1.byte)
      qubit2Id == MapGet(vm.bytecodeInterpreter.qubitIdMap, f2.byte)
      qubit3Id == MapGet(vm.bytecodeInterpreter.qubitIdMap, f3.byte)
  IN IF qubit1Id = Undefined \/ qubit2Id = Undefined \/ qubit3Id = Undefined
     THEN Fail(f3.vm, Thrown("Invalid qubit reference in three-qubit gate", 0))
     ELSE GateExecutor_applyToffoli(f3.vm, qubit1Id, qubit2Id, qubit3Id)

\* A classical value is a JavaScript number holding an integer. It is kept
\* as carry * 2^32 + low with low a 32-bit two's complement integer, so
\* that low is what ToInt32 makes of it and carry = 0 says it fits 32 bits.
Int32Max == 2147483647
Int32Min == 0 - Int32Max - 1
Int32(n) == [carry |-> 0, low |-> n]
IsInt32(x) == x.carry = 0

\* the integer of a value that fits 32 bits
Narrow(x) == x.carry * 65536 * 65536 + x.low

\* a + b
JSAdd(x, y) ==
  IF x.low > 0 /\ y.low > 0 /\ x.low > Int32Max - y.low
  THEN [carry |-> x.carry + y.carry + 1,
        low |-> (x.low - Int32Max - 1) + (y.low - Int32Max - 1)]
  ELSE IF x.low < 0 /\ y.low < 0 /\ x.low < Int32Min - y.low
  THEN [carry |-> x.carry + y.carry - 1,
        low |-> (x.low + Int32Max + 1) + (y.low + Int32Max + 1)]
  ELSE [carry |-> x.carry + y.carry, low |-> x.low + y.low]

\* -a
JSNeg(x) ==
  IF x.low = Int32Min THEN [carry |-> 1 - x.carry, low |-> Int32Min]
  ELSE [carry |-> 0 - x.carry, low |-> 0 - x.low]

\* a - b
JSSub(x, y) == JSAdd(x, JSNeg(y))

\* a < b
JSLess(x, y) ==
  LET d == JSSub(x, y) IN d.carry < 0 \/ (d.carry = 0 /\ d.low < 0)

\* a * n for an integer n >= 0 that fits 32 bits
RECURSIVE Times(_, _)
Times(x, n) ==
  IF n = 0 THEN Int32(0)
  ELSE IF n % 2 = 0 THEN Times(JSAdd(x, x), n \div 2)
  ELSE JSAdd(x, Times(JSAdd(x, x), n \div 2))

\* a * b, one of the factors fitting 32 bits (a product of two wider
\* factors is beyond 2^53, where the number is no longer exact)
JSMul(x, y) ==
  IF IsInt32(y)
  THEN (IF y.low = Int32Min THEN JSNeg(JSAdd(Times(x, Int32Max), x))
        ELSE IF y.low < 0 THEN JSNeg(Times(x, 0 - y.low))
        ELSE Times(x, y.low))
  ELSE (IF Narrow(x) = Int32Min THEN JSNeg(JSAdd(Times(y, Int32Max), y))
        ELSE IF Narrow(x) < 0 THEN JSNeg(Times(y, 0 - Narrow(x)))
        ELSE Times(y, Narrow(x)))

\* a & b on two's complement integers
RECURSIVE BitAnd(_, _)
BitAnd(a, b) ==
  IF a = 0 \/ b = 0 THEN 0
  ELSE IF a = 0 - 1 THEN b
  ELSE IF b = 0 - 1 THEN a
  ELSE 2 * BitAnd(a \div 2, b \div 2) + (a % 2) * (b % 2)

\* Math.floor(a / b) for b # 0, on integers that fit 32 bits
FloorDiv(a, b) ==
  IF b > 0 THEN Int32(a \div b)
  ELSE IF b = Int32Min THEN Int32(IF a = Int32Min THEN 1 ELSE IF a > 0 THEN 0 - 1 ELSE 0)
  ELSE IF a = Int32Min
  THEN (IF b = 0 - 1 THEN [carry |-> 1, low |-> Int32Min]
        ELSE Int32((Int32Max \div (0 - b))
                     + (IF (Int32Max % (0 - b)) + 1 = 0 - b THEN 1 ELSE 0)))
  ELSE Int32((0 - a) \div (0 - b))

\* this.classicalMemory.set(resultAddr, result) once measureQubit() has returned m
StoreMeasurement(m, resultAddr) ==
  IF m.err # NoError THEN m
  ELSE Ok([m.vm EXCEPT !.bytecodeInterpreter.classicalMemory =
                         MapSet(m.vm.bytecodeInterpreter.classicalMemory, resultAddr,
                                Int32(m.ret))], 0)

executeMeasureQubit(vm, random) ==
  LET f1 == Fetch(vm)
      f2 == Fetch(f1.vm)
      qubitId == MapGet(vm.bytecodeInterpreter.qubitIdMap, f1.byte)
  IN IF qubitId = Undefined THEN Fail(f2.vm, Thrown("Invalid qubit reference", f1.byte))
     ELSE StoreMeasurement(MeasurementEngine_measureQubit(f2.vm, qubitId, FALSE, random),
                           f2.byte)

\* a conditional jump that branches on zero instead of nonzero
executeConditionalJump_OnZero(vm) ==
  LET f == Fetch(vm)
      B == f.vm.bytecodeInterpreter
      targetAddr == readUInt32LE(B.bytecode, B.pc)
      after == [f.vm EXCEPT !.bytecodeInterpreter.pc = B.pc + 4]
  IN IF OutOfRange(B.bytecode, B.pc, 4)
     THEN Fail(f.vm, Thrown("RangeError: out of range", B.pc))
     ELSE IF ~MapHas(B.classicalMemory, f.byte)
     THEN Fail(after, Thrown("Condition not set", f.byte))
     ELSE IF B.classicalMemory[f.byte] = Int32(0)
     THEN Ok([after EXCEPT !.bytecodeInterpreter.pc = targetAddr], 0)
     ELSE Ok(after, 0)

executeConditionalJump(vm) ==
  LET f == Fetch(vm)
      B == f.vm.bytecodeInterpreter
      targetAddr == readUInt32LE(B.bytecode, B.pc)
      after == [f.vm EXCEPT !.bytecodeInterpreter.pc = B.pc + 4]
  IN IF OutOfRange(B.bytecode, B.pc, 4)
     THEN Fail(f.vm, Thrown("RangeError: out of range", B.pc))
     ELSE IF ~MapHas(B.classicalMemory, f.byte)
     THEN Fail(after, Thrown("Condition not set", f.byte))
     ELSE IF B.classicalMemory[f.byte] # Int32(0)
     THEN Ok([after EXCEPT !.bytecodeInterpreter.pc = targetAddr], 0)
     ELSE Ok(after, 0)

executeJump(vm) ==
  LET B == vm.bytecodeInterpreter
      targetAddr == readUInt32LE(B.bytecode, B.pc)
  IN IF OutOfRange(B.bytecode, B.pc, 4)
     THEN Fail(vm, Thrown("RangeError: out of range", B.pc))
     ELSE Ok([vm EXCEPT !.bytecodeInterpreter.pc = targetAddr], 0)

executeStoreClassical(vm) ==
  LET f == Fetch(vm)
      B == f.vm.bytecodeInterpreter
      value == readInt32LE(B.bytecode, B.pc)
  IN IF OutOfRange(B.bytecode, B.pc, 4)
     THEN Fail(f.vm, Thrown("RangeError: out of range", B.pc))
     ELSE Ok([f.vm EXCEPT !.bytecodeInterpreter.pc = B.pc + 4,
                          !.bytecodeInterpreter.classicalMemory =
                             MapSet(B.classicalMemory, f.byte, Int32(value))], 0)

executeLoadClassical(vm) ==
  LET f1 == Fetch(vm)
      f2 == Fetch(f1.vm)
      mem == vm.bytecodeInterpreter.classicalMemory
  IN IF ~MapHas(mem, f1.byte) THEN Fail(f2.vm, Thrown("No value at address", f1.byte))
     ELSE Ok([f2.vm EXCEPT !.bytecodeInterpreter.classicalMemory =
                             MapSet(mem, f2.byte, mem[f1.byte])], 0)

ClassicalResult(operation, a, b) ==
  IF operation = "ADD" THEN JSAdd(a, b)
  ELSE IF operation = "SUB" THEN JSSub(a, b)
  ELSE IF operation = "MUL" THEN JSMul(a, b)
  ELSE IF operation = "DIV" THEN FloorDiv(Narrow(a), Narrow(b))
  ELSE IF operation = "AND" THEN Int32(BitAnd(a.low, b.low))
  ELSE IF operation = "OR" THEN Int32(a.low + (b.low - BitAnd(a.low, b.low)))
  ELSE IF operation = "XOR"
  THEN Int32((a.low - BitAnd(a.low, b.low)) + (b.low - BitAnd(a.low, b.low)))
  ELSE Int32((0 - 1) - a.low)

\* a binary operation that clears its result address before it looks at its
\* operands
executeClassicalOperation_ClearsFirst(vm, operation) ==
  LET f1 == Fetch(vm)
      f2 == Fetch(f1.vm)
      f3 == Fetch(f2.vm)
      mem == vm.bytecodeInterpreter.classicalMemory
      cleared == [f3.vm EXCEPT !.bytecodeInterpreter.classicalMemory =
                                 MapSet(mem, f3.byte, Int32(0))]
  IN IF ~MapHas(mem, f1.byte) \/ ~MapHas(mem, f2.byte)
     THEN Fail(cleared, Thrown("Operand values not set", 0))
     ELSE IF operation = "DIV" /\ mem[f2.byte] = Int32(0)
     THEN Fail(cleared, Thrown("Division by zero", 0))
     ELSE Ok([f3.vm EXCEPT !.bytecodeInterpreter.classicalMemory =
                             MapSet(mem, f3.byte,
                                    ClassicalResult(operation, mem[f1.byte], mem[f2.byte]))], 0)

executeClassicalOperation(vm, operation) ==
  LET f1 == Fetch(vm)
      f2 == Fetch(f1.vm)
      f3 == Fetch(f2.vm)
      mem == vm.bytecodeInterpreter.classicalMemory
  IN IF ~MapHas(mem, f1.byte) \/ ~MapHas(mem, f2.byte)
     THEN Fail(f3.vm, Thrown("Operand values not set", 0))
     ELSE IF operation = "DIV" /\ mem[f2.byte] = Int32(0)
     THEN Fail(f3.vm, Thrown("Division by zero", 0))
     ELSE Ok([f3.vm EXCEPT !.bytecodeInterpreter.classicalMemory =
                             MapSet(mem, f3.byte,
                                    ClassicalResult(operation, mem[f1.byte], mem[f2.byte]))], 0)

\* a comparison with its operands exchanged
ComparisonResult_Exchanged(comparison, a, b) ==
  IF comparison = "EQ" THEN Int32(IF a = b THEN 1 ELSE 0)
  ELSE IF comparison = "NEQ" THEN Int32(IF a # b THEN 1 ELSE 0)
  ELSE IF comparison = "LT" THEN Int32(IF JSLess(b, a) THEN 1 ELSE 0)
  ELSE Int32(IF JSLess(a, b) THEN 1 ELSE 0)

ComparisonResult(comparison, a, b) ==
  IF comparison = "EQ" THEN Int32(IF a = b THEN 1 ELSE 0)
  ELSE IF comparison = "NEQ" THEN Int32(IF a # b THEN 1 ELSE 0)
  ELSE IF comparison = "LT" THEN Int32(IF JSLess(a, b) THEN 1 ELSE 0)
  ELSE Int32(IF JSLess(b, a) THEN 1 ELSE 0)

executeClassicalComparison(vm, comparison) ==
  LET f1 == Fetch(vm)
      f2 == Fetch(f1.vm)
      f3 == Fetch(f2.vm)
      mem == vm.bytecodeInterpreter.classicalMemory
  IN IF ~MapHas(mem, f1.byte) \/ ~MapHas(mem, f2.byte)
     THEN Fail(f3.vm, Thrown("Operand values not set", 0))
     ELSE Ok([f3.vm EXCEPT !.bytecodeInterpreter.classicalMemory =
                             MapSet(mem, f3.byte,
                                    ComparisonResult(comparison, mem[f1.byte], mem[f2.byte]))], 0)

\* the name each case of the switch hands to the handler it calls
CaseName(opcode) ==
  LET O == QBCOpcode
  IN IF opcode = O.GATE_X THEN "X" ELSE IF opcode = O.GATE_Y THEN "Y"
     ELSE IF opcode = O.GATE_Z THEN "Z" ELSE IF opcode = O.GATE_H THEN "H"
     ELSE IF opcode = O.GATE_S THEN "S" ELSE IF opcode = O.GATE_T THEN "T"
     ELSE IF opcode = O.GATE_RX THEN "RX" ELSE IF opcode = O.GATE_RY THEN "RY"
     ELSE IF opcode = O.GATE_RZ THEN "RZ" ELSE IF opcode = O.GATE_CNOT THEN "CNOT"
     ELSE IF opcode = O.GATE_CZ THEN "CZ" ELSE IF opcode = O.GATE_SWAP THEN "SWAP"
     ELSE IF opcode = O.GATE_TOFFOLI THEN "Toffoli"
     ELSE IF opcode = O.ADD_CLASSICAL THEN "ADD" ELSE IF opcode = O.SUB_CLASSICAL THEN "SUB"
     ELSE IF opcode = O.MUL_CLASSICAL THEN "MUL" ELSE IF opcode = O.DIV_CLASSICAL THEN "DIV"
     ELSE IF opcode = O.AND_CLASSICAL THEN "AND" ELSE IF opcode = O.OR_CLASSICAL THEN "OR"
     ELSE IF opcode = O.XOR_CLASSICAL THEN "XOR" ELSE IF opcode = O.NOT_CLASSICAL THEN "NOT"
     ELSE IF opcode = O.CMP_EQ_CLASSICAL THEN "EQ" ELSE IF opcode = O.CMP_NEQ_CLASSICAL THEN "NEQ"
     ELSE IF opcode = O.CMP_LT_CLASSICAL THEN "LT" ELSE "GT"

\* the switch of executeNextInstruction on the opcode just fetched
Dispatch(vm, opcode, uuid, random) ==
  LET O == QBCOpcode
  IN IF opcode = O.ALLOCATE_QUBIT THEN executeAllocateQubit(vm, uuid)
     ELSE IF opcode = O.DEALLOCATE_QUBIT THEN executeDeallocateQubit(vm)
     ELSE IF opcode \in {O.GATE_X, O.GATE_Y, O.GATE_Z, O.GATE_H, O.GATE_S, O.GATE_T}
     THEN executeSingleQubitGate(vm, CaseName(opcode))
     ELSE IF opcode \in {O.GATE_RX, O.GATE_RY, O.GATE_RZ}
     THEN executeRotationGate(vm, CaseName(opcode))
     ELSE IF opcode \in {O.GATE_CNOT, O.GATE_CZ, O.GATE_SWAP}
     THEN executeTwoQubitGate(vm, CaseName(opcode))
     ELSE IF opcode = O.GATE_TOFFOLI THEN executeThreeQubitGate(vm, CaseName(opcode))
     ELSE IF opcode = O.MEASURE_QUBIT THEN executeMeasureQubit(vm, random)
     ELSE IF opcode = O.CONDITIONAL_JUMP THEN executeConditionalJump(vm)
     ELSE IF opcode = O.JUMP THEN executeJump(vm)
     ELSE IF opcode = O.STORE_CLASSICAL THEN executeStoreClassical(vm)
     ELSE IF opcode = O.LOAD_CLASSICAL THEN executeLoadClassical(vm)
     ELSE IF opcode \in {O.ADD_CLASSICAL, O.SUB_CLASSICAL, O.MUL_CLASSICAL, O.DIV_CLASSICAL,
                         O.AND_CLASSICAL, O.OR_CLASSICAL, O.XOR_CLASSICAL, O.NOT_CLASSICAL}
     THEN executeClassicalOperation(vm, CaseName(opcode))
     ELSE IF opcode \in {O.CMP_EQ_CLASSICAL, O.CMP_NEQ_CLASSICAL, O.CMP_LT_CLASSICAL,
                         O.CMP_GT_CLASSICAL}
     THEN executeClassicalComparison(vm, CaseName(opcode))
     ELSE IF opcode = O.END THEN Ok([vm EXCEPT !.bytecodeInterpreter.running = FALSE], 0)
     ELSE Fail(vm, Thrown("Unknown opcode", opcode))

\* the metrics counter the switch increments after the opcode's handler
MetricOf(opcode) ==
  LET O == QBCOpcode
  IN IF opcode = O.END THEN "none"
     ELSE IF opcode \in {O.CONDITIONAL_JUMP, O.JUMP} THEN "jumpOps"
     ELSE IF opcode >= O.STORE_CLASSICAL THEN "classicalOps"
     ELSE "quantumOps"

\* a switch whose cases increment no category counter
Counted_Uncategorised(metrics, opcode) ==
  [metrics EXCEPT !.instructionsExecuted = metrics.instructionsExecuted + 1]

\* the counters after an instruction whose handler returned: the case's
\* category counter, then instructionsExecuted
Counted(metrics, opcode) ==
  LET name == MetricOf(opcode)
      m == IF name = "none" THEN metrics ELSE [metrics EXCEPT ![name] = metrics[name] + 1]
  IN [m EXCEPT !.instructionsExecuted = m.instructionsExecuted + 1]

\* executeNextInstruction(); before and after tell whether the hooks were called
\* what follows the handler in executeNextInstruction(): the counters and the
\* afterInstruction hook, unless the handler threw
AfterHandler(d, opcode, hooks) ==
  IF d.err # NoError
  THEN [vm |-> d.vm, err |-> d.err, before |-> hooks.beforeInstruction, after |-> FALSE]
  ELSE [vm |-> [d.vm EXCEPT !.bytecodeInterpreter.metrics =
                              Counted(d.vm.bytecodeInterpreter.metrics, opcode)],
        err |-> NoError,
        before |-> hooks.beforeInstruction, after |-> hooks.afterInstruction]

executeNextInstruction(vm, uuid, random) ==
  LET B == vm.bytecodeInterpreter
      f == Fetch(vm)
  IN IF B.pc >= Len(B.bytecode)
     THEN [vm |-> [vm EXCEPT !.bytecodeInterpreter.running = FALSE], err |-> NoError,
           before |-> FALSE, after |-> FALSE]
     ELSE AfterHandler(Dispatch(f.vm, f.byte, uuid, random), f.byte, B.hooks)

\* a catch block that records the error and leaves running set
Catch_StillRunning(B, error) == [B EXCEPT !.error = error]

\* the catch block of execute()
Catch(B, error) == [B EXCEPT !.error = error, !.running = FALSE]

\* the first lines of execute(options), once the bytecode is known to be non-empty
Begin(B) == [B EXCEPT !.running = TRUE, !.pc = 0, !.error = NoError, !.metrics = NoMetrics]

\* the condition of the while loop of execute()
LoopCondition(B, options) ==
  B.running /\ B.pc < Len(B.bytecode)
  /\ (options.maxInstructions \in {Undefined, 0}
      \/ B.metrics.instructionsExecuted < options.maxInstructions)

\* the object execute() returns; the message stands for the error
ExecutionResult(vm) ==
  LET B == vm.bytecodeInterpreter
  IN [success |-> B.error = NoError,
      error |-> B.error,
      measurements |-> vm.measurementEngine.measurementResults,
      classicalMemory |-> B.classicalMemory,
      metrics |-> B.metrics]

(* ------------------------------------------------------------------ *)
(* The state of the machine                                             *)
(* ------------------------------------------------------------------ *)
VARIABLES
  config,               \* QuantumVirtualMachine.config
  stateVector,          \* the StateVector object
  qubitRegistry,        \* the QubitRegistry object
  gateExecutor,         \* the GateExecutor object
  measurementEngine,    \* the MeasurementEngine object
  bytecodeInterpreter,  \* the BytecodeInterpreter object
  uuids,                \* how many identifiers uuidv4() has issued
  run,                  \* where execute() stands and what it was called with
  result,               \* what the last execute() returned
  hookCalls,            \* how often each hook was called in this execute()
  call,                 \* the last call made on the machine and how it ended
  bell,                 \* progress of the Bell-state example on this machine
  resets,               \* how often reset() was called
  codec                 \* the last call of a function of types/qbc.js

vars ==
  <<config, stateVector, qubitRegistry, gateExecutor, measurementEngine,
    bytecodeInterpreter, uuids, run, result, hookCalls, call, bell, resets, codec>>

\* the objects as one record, and back
Machine ==
  [stateVector |-> stateVector, qubitRegistry |-> qubitRegistry,
   gateExecutor |-> gateExecutor, measurementEngine |-> measurementEngine,
   bytecodeInterpreter |-> bytecodeInterpreter]

Becomes(vm) ==
  /\ stateVector' = vm.stateVector
  /\ qubitRegistry' = vm.qubitRegistry
  /\ gateExecutor' = vm.gateExecutor
  /\ measurementEngine' = vm.measurementEngine
  /\ bytecodeInterpreter' = vm.bytecodeInterpreter

\* the record of a call: what was called, what it threw or returned, and the
\* value Math.random() gave it
Called(op, r, random) == [op |-> op, err |-> r.err, ret |-> r.ret, random |-> random]

NoResult ==
  [success |-> FALSE, error |-> NoError, measurements |-> EmptyMap,
   classicalMemory |-> EmptyMap, metrics |-> NoMetrics]

NoHookCalls == [beforeInstruction |-> 0, afterInstruction |-> 0, onError |-> 0]

Idle == [phase |-> "idle", options |-> [maxInstructions |-> Undefined, timeout |-> 0],
         viaQBC |-> FALSE, runs |-> 0, raised |-> NoError]

\* the progress of examples/bell-state.js: allocate q0 and q1, h(q0), cnot(q0, q1),
\* measure(q0), measure(q1); stage 7 is any other history
BellStart == [stage |-> 0, q0 |-> 0, q1 |-> 0, r0 |-> 0, r1 |-> 0]
BellOff == [BellStart EXCEPT !.stage = 7]

BellAfter(op, args, r) ==
  IF r.err # NoError THEN BellOff
  ELSE IF bell.stage = 0 /\ op = "allocateQubit" THEN [bell EXCEPT !.stage = 1, !.q0 = r.ret]
  ELSE IF bell.stage = 1 /\ op = "allocateQubit" THEN [bell EXCEPT !.stage = 2, !.q1 = r.ret]
  ELSE IF bell.stage = 2 /\ op = "applySingleQubitGate" /\ args = <<bell.q0, "H">>
  THEN [bell EXCEPT !.stage = 3]
  ELSE IF bell.stage = 3 /\ op = "applyCNOT" /\ args = <<bell.q0, bell.q1>>
  THEN [bell EXCEPT !.stage = 4]
  ELSE IF bell.stage = 4 /\ op = "measureQubit" /\ args = <<bell.q0, FALSE>>
  THEN [bell EXCEPT !.stage = 5, !.r0 = r.ret]
  ELSE IF bell.stage = 5 /\ op = "measureQubit" /\ args = <<bell.q1, FALSE>>
  THEN [bell EXCEPT !.stage = 6, !.r1 = r.ret]
  ELSE BellOff

\* no function of types/qbc.js has been called
NoCodecCall == [op |-> "none", input |-> <<>>, buffer |-> <<>>, output |-> <<>>]

\* initialize(config): the machine as constructed
Init ==
  /\ config = [maxQubits |-> ConfigMaxQubits, debugMode |-> FALSE]
  /\ stateVector = NewStateVector(0, ConfigMaxQubits)
  /\ qubitRegistry = NewQubitRegistry(RegistryMaxQubits)
  /\ gateExecutor = NewGateExecutor
  /\ measurementEngine = NewMeasurementEngine
  /\ bytecodeInterpreter = NewBytecodeInterpreter
  /\ uuids = 0
  /\ run = Idle
  /\ result = NoResult
  /\ hookCalls = NoHookCalls
  /\ call = [op |-> "initialize", err |-> NoError, ret |-> 0, random |-> Zero]
  /\ bell = BellStart
  /\ resets = 0
  /\ codec = NoCodecCall

(* ------------------------------------------------------------------ *)
(* Calls on the component API of an initialized machine                 *)
(* ------------------------------------------------------------------ *)
Handles == 1..MaxHandles
GateNames == {"X", "H", "S"}

\* the values Math.random() returns in the model: 0 and 1/2
Draws == {Zero, Num(1, 0, 1)}

\* a call that leaves execute() and the interpreter's bookkeeping alone
Api(op, args, r, random) ==
  /\ run.phase # "running"
  /\ Becomes(r.vm)
  /\ call' = Called(op, r, random)
  /\ bell' = BellAfter(op, args, r)
  /\ UNCHANGED <<config, run, result, hookCalls, resets, codec>>

AllocateQubit ==
  /\ uuids < MaxHandles
  /\ uuids' = IF Cardinality(DOMAIN qubitRegistry.qubits) >= qubitRegistry.maxQubits
              THEN uuids ELSE uuids + 1
  /\ Api("allocateQubit", <<>>, allocateQubit(Machine, uuids + 1), Zero)

DeallocateQubit ==
  \E qubitId \in Handles :
    /\ Api("deallocateQubit", <<qubitId>>, deallocateQubit(Machine, qubitId), Zero)
    /\ UNCHANGED uuids

ApplySingleQubitGate ==
  \E qubitId \in Handles, gateName \in GateNames :
    /\ gateExecutor.metrics.totalGatesExecuted < MaxGates
    /\ Api("applySingleQubitGate", <<qubitId, gateName>>,
           GateExecutor_applySingleQubitGate(Machine, qubitId, gateName), Zero)
    /\ UNCHANGED uuids

ApplyRotation ==
  \E qubitId \in Handles, gateName \in {"RX", "RY", "RZ"}, theta \in {"0", "pi"} :
    /\ gateExecutor.metrics.totalGatesExecuted < MaxGates
    /\ Api("applyRotation", <<qubitId, gateName, theta>>,
           GateExecutor_applyRotation(Machine, qubitId, gateName, theta), Zero)
    /\ UNCHANGED uuids

ApplyCNOT ==
  \E controlQubitId \in Handles, targetQubitId \in Handles :
    /\ gateExecutor.metrics.totalGatesExecuted < MaxGates
    /\ Api("applyCNOT", <<controlQubitId, targetQubitId>>,
           GateExecutor_applyCNOT(Machine, controlQubitId, targetQubitId), Zero)
    /\ UNCHANGED uuids

ApplyCZ ==
  \E controlQubitId \in Handles, targetQubitId \in Handles :
    /\ gateExecutor.metrics.totalGatesExecuted < MaxGates
    /\ Api("applyCZ", <<controlQubitId, targetQubitId>>,
           GateExecutor_applyCZ(Machine, controlQubitId, targetQubitId), Zero)
    /\ UNCHANGED uuids

ApplySWAP ==
  \E qubitId1 \in Handles, qubitId2 \in Handles :
    /\ gateExecutor.metrics.totalGatesExecuted < MaxGates
    /\ Api("applySWAP", <<qubitId1, qubitId2>>,
           GateExecutor_applySWAP(Machine, qubitId1, qubitId2), Zero)
    /\ UNCHANGED uuids

ApplyToffoli ==
  \E control1QubitId \in Handles, control2QubitId \in Handles, targetQubitId \in Handles :
    /\ gateExecutor.metrics.totalGatesExecuted < MaxGates
    /\ Api("applyToffoli", <<control1QubitId, control2QubitId, targetQubitId>>,
           GateExecutor_applyToffoli(Machine, control1QubitId, control2QubitId,
                                     targetQubitId), Zero)
    /\ UNCHANGED uuids

ApplyControlledGate ==
  \E controlQubitId \in Handles, targetQubitId \in Handles, gateName \in {"X", "H"} :
    /\ gateExecutor.metrics.totalGatesExecuted < MaxGates
    /\ Api("applyControlledGate", <<controlQubitId, targetQubitId, gateName>>,
           GateExecutor_applyControlledGate(Machine, controlQubitId, targetQubitId,
                                            GATES[gateName]), Zero)
    /\ UNCHANGED uuids

MeasureQubit ==
  \E qubitId \in Handles, nonCollapsing \in BOOLEAN, random \in Draws :
    /\ Len(measurementEngine.measurementHistory) < MaxMeasurements
    /\ Api("measureQubit", <<qubitId, nonCollapsing>>,
           MeasurementEngine_measureQubit(Machine, qubitId, nonCollapsing, random), random)
    /\ UNCHANGED uuids

\* the arrays handed to setStateVector: the last amplitude 1 or 2 and the rest 0,
\* or an array one element short
Candidates(size) ==
  {[i \in 0..(size - 1) |-> IF i = size - 1 THEN c ELSE CZero] : c \in {COne, Re(Num(2, 0, 0))}}
  \cup {[i \in 0..(size - 2) |-> CZero]}

\* setStateVector prepares a state: it is called before the gates and measurements
SetStateVector ==
  \E newStateVector \in Candidates(VLen(stateVector.stateVector)) :
    LET sv == setStateVector(stateVector, newStateVector)
    IN /\ gateExecutor.metrics.totalGatesExecuted = 0
       /\ Len(measurementEngine.measurementHistory) = 0
       /\ Api("setStateVector", <<VLen(newStateVector)>>,
              [vm |-> [Machine EXCEPT !.stateVector = sv.S], err |-> sv.err, ret |-> 0],
              Zero)
       /\ UNCHANGED uuids

Normalize ==
  LET sv == normalize(stateVector)
  IN /\ Api("normalize", <<>>,
            [vm |-> [Machine EXCEPT !.stateVector = sv.S], err |-> sv.err, ret |-> 0], Zero)
     /\ UNCHANGED uuids

\* QuantumVirtualMachine.reset()
QVM_reset(vm) ==
  LET sv == StateVector_reset(vm.stateVector)
  IN IF sv.err # NoError THEN Fail(vm, sv.err)
     ELSE Ok([vm EXCEPT !.stateVector = sv.S,
                        !.qubitRegistry = QubitRegistry_reset(vm.qubitRegistry),
                        !.measurementEngine = MeasurementEngine_reset(vm.measurementEngine),
                        !.bytecodeInterpreter =
                           BytecodeInterpreter_reset(vm.bytecodeInterpreter)], 0)

Reset ==
  LET r == QVM_reset(Machine)
  IN /\ run.phase # "running"
     /\ resets < MaxResets
     /\ resets' = resets + 1
     /\ Becomes(r.vm)
     /\ call' = Called("reset", r, Zero)
     /\ bell' = BellStart
     /\ run' = [run EXCEPT !.phase = "idle"]
     /\ UNCHANGED <<config, result, hookCalls, uuids, codec>>

Next ==
  \/ AllocateQubit
  \/ DeallocateQubit
  \/ ApplySingleQubitGate
  \/ ApplyRotation
  \/ ApplyCNOT
  \/ ApplyCZ
  \/ ApplySWAP
  \/ ApplyToffoli
  \/ ApplyControlledGate
  \/ MeasureQubit
  \/ SetStateVector
  \/ Normalize
  \/ Reset

Spec == Init /\ [][Next]_vars

(* ------------------------------------------------------------------ *)
(* The operations of examples/bell-state.js, in any order and on any    *)
(* handles                                                              *)
(* ------------------------------------------------------------------ *)
BellHadamard ==
  \E qubitId \in Handles :
    /\ gateExecutor.metrics.totalGatesExecuted < MaxBellGates
    /\ Api("applySingleQubitGate", <<qubitId, "H">>,
           GateExecutor_applySingleQubitGate(Machine, qubitId, "H"), Zero)
    /\ UNCHANGED uuids

BellCNOT ==
  \E controlQubitId \in Handles, targetQubitId \in Handles :
    /\ gateExecutor.metrics.totalGatesExecuted < MaxBellGates
    /\ Api("applyCNOT", <<controlQubitId, targetQubitId>>,
           GateExecutor_applyCNOT(Machine, controlQubitId, targetQubitId), Zero)
    /\ UNCHANGED uuids

BellMeasure ==
  \E qubitId \in Handles, random \in Draws :
    /\ Len(measurementEngine.measurementHistory) < MaxBellMeasurements
    /\ Api("measureQubit", <<qubitId, FALSE>>,
           MeasurementEngine_measureQubit(Machine, qubitId, FALSE, random), random)
    /\ UNCHANGED uuids

NextBell ==
  \/ AllocateQubit
  \/ BellHadamard
  \/ BellCNOT
  \/ BellMeasure
  \/ Reset

SpecBell == Init /\ [][NextBell]_vars

(* ------------------------------------------------------------------ *)
(* The measurement engine on a machine prepared by allocations and      *)
(* Hadamard gates                                                       *)
(* ------------------------------------------------------------------ *)
MeasureAllQubits ==
  \E randoms \in [1..RegistryMaxQubits -> Draws] :
    /\ Len(measurementEngine.measurementHistory) + Cardinality(DOMAIN qubitRegistry.qubits)
         <= MaxEngineMeasurements
    /\ Api("measureAllQubits", <<>>,
           MeasurementEngine_measureAllQubits(Machine, randoms), randoms)
    /\ UNCHANGED uuids

EngineMeasureQubit ==
  \E qubitId \in Handles, nonCollapsing \in BOOLEAN, random \in Draws :
    /\ Len(measurementEngine.measurementHistory) < MaxEngineMeasurements
    /\ Api(IF nonCollapsing THEN "measureQubit(nonCollapsing)" ELSE "measureQubit",
           <<qubitId, nonCollapsing>>,
           MeasurementEngine_measureQubit(Machine, qubitId, nonCollapsing, random), random)
    /\ UNCHANGED uuids

GetProbability ==
  \E qubitId \in Handles, outcome \in 0..2 :
    /\ Api("getProbability", <<qubitId, outcome>>,
           MeasurementEngine_getProbability(Machine, qubitId, outcome), Zero)
    /\ UNCHANGED uuids

\* the maps handed to getJointProbability: the empty map, an outcome 0, 1 or the
\* invalid 2 for one identifier, outcomes 0 or 1 for two identifiers
OutcomeMaps ==
  UNION {[keys -> IF Cardinality(keys) = 1 THEN 0..2 ELSE 0..1] :
           keys \in {k \in SUBSET Handles : Cardinality(k) <= 2}}

GetJointProbability ==
  \E outcomeMap \in OutcomeMaps :
    /\ Api("getJointProbability", <<outcomeMap>>,
           getJointProbability(Machine, outcomeMap), Zero)
    /\ UNCHANGED uuids

Sample ==
  \E shots \in 0..MaxShots, randoms \in [1..MaxShots -> Draws] :
    /\ Api("sample", <<shots>>, sample(Machine, shots, randoms), randoms)
    /\ UNCHANGED uuids

NextMeasure ==
  \/ AllocateQubit
  \/ BellHadamard
  \/ MeasureAllQubits
  \/ EngineMeasureQubit
  \/ GetProbability
  \/ GetJointProbability
  \/ Sample
  \/ Reset

SpecMeasure == Init /\ [][NextMeasure]_vars

(* ------------------------------------------------------------------ *)
(* Sampling a prepared state: allocateQubit, setStateVector on the      *)
(* machine's state vector, sample, reset                                *)
(* ------------------------------------------------------------------ *)
\* a draw of Math.random() just below 1: 1 - 2^-22
AlmostOne == Num(4194303, 0, 22)

SampleDraws == Draws \cup {AlmostOne}

\* a one-qubit state of norm 1 whose amplitude of |1> has the squared magnitude
\* 3 * 2^-22, about 0.0000007: (726 + 1915i) / 2^11 and (1 + i*sqrt 2) / 2^11
FaintOne ==
  <<ComplexNumber(Num(726, 0, 11), Num(1915, 0, 11)), ComplexNumber(Num(1, 0, 11), Num(0, 1, 11))>>

\* the pairs of amplitudes a state is prepared from: |0>, |1>, |+> and FaintOne
PreparedPairs ==
  {<<COne, CZero>>, <<CZero, COne>>, <<Re(InvSqrt2), Re(InvSqrt2)>>, FaintOne}

\* the arrays handed to setStateVector: a pair at the indices 0 and 1, zeros above
PreparedStates(size) ==
  {[i \in 0..(size - 1) |-> IF i <= 1 THEN pair[i + 1] ELSE CZero] : pair \in PreparedPairs}

PrepareState ==
  \E newStateVector \in PreparedStates(VLen(stateVector.stateVector)) :
    LET sv == setStateVector(stateVector, newStateVector)
    IN /\ VLen(stateVector.stateVector) >= 2
       /\ Api("setStateVector", <<VLen(newStateVector)>>,
              [vm |-> [Machine EXCEPT !.stateVector = sv.S], err |-> sv.err, ret |-> 0],
              Zero)
       /\ UNCHANGED uuids

SampleShots ==
  \E shots \in 0..MaxShots, randoms \in [1..MaxShots -> SampleDraws] :
    /\ Api("sample", <<shots>>, sample(Machine, shots, randoms), randoms)
    /\ UNCHANGED uuids

NextSample ==
  \/ AllocateQubit
  \/ PrepareState
  \/ SampleShots
  \/ Reset

SpecSample == Init /\ [][NextSample]_vars

(* ------------------------------------------------------------------ *)
(* Programs handed to the interpreter                                   *)
(* ------------------------------------------------------------------ *)
Op == QBCOpcode

\* [ALLOC 0, H 0, MEASURE 0 -> 0, END]
ProgramMeasure ==
  <<Instr(Op.ALLOCATE_QUBIT, <<0>>), Instr(Op.GATE_H, <<0>>),
    Instr(Op.MEASURE_QUBIT, <<0, 0>>), Instr(Op.END, <<>>)>>

\* the classical control flow program; END is at offset 32
ProgramFlow ==
  <<Instr(Op.STORE_CLASSICAL, <<0, 5>>), Instr(Op.STORE_CLASSICAL, <<1, 3>>),
    Instr(Op.SUB_CLASSICAL, <<0, 1, 2>>), Instr(Op.CMP_GT_CLASSICAL, <<2, 1, 3>>),
    Instr(Op.CONDITIONAL_JUMP, <<3, 32>>), Instr(Op.STORE_CLASSICAL, <<4, 99>>),
    Instr(Op.END, <<>>)>>

ProgramBell ==
  <<Instr(Op.ALLOCATE_QUBIT, <<0>>), Instr(Op.ALLOCATE_QUBIT, <<1>>),
    Instr(Op.GATE_H, <<0>>), Instr(Op.GATE_CNOT, <<0, 1>>),
    Instr(Op.MEASURE_QUBIT, <<0, 0>>), Instr(Op.MEASURE_QUBIT, <<1, 1>>),
    Instr(Op.END, <<>>)>>

\* STORE 0 <- value; CJMP 0, target; STORE 1 <- 7; END (offsets 0, 6, 12, 18)
ProgramBranch(value, target) ==
  <<Instr(Op.STORE_CLASSICAL, <<0, value>>), Instr(Op.CONDITIONAL_JUMP, <<0, target>>),
    Instr(Op.STORE_CLASSICAL, <<1, 7>>), Instr(Op.END, <<>>)>>

\* JMP target; STORE 1 <- 7; END (offsets 0, 5, 11)
ProgramJump(target) ==
  <<Instr(Op.JUMP, <<target>>), Instr(Op.STORE_CLASSICAL, <<1, 7>>), Instr(Op.END, <<>>)>>

\* STORE 0 <- a; STORE 1 <- b; operation 0, 1 -> 2; END
ProgramALU(operation, a, b) ==
  <<Instr(Op.STORE_CLASSICAL, <<0, a>>), Instr(Op.STORE_CLASSICAL, <<1, b>>),
    Instr(operation, <<0, 1, 2>>), Instr(Op.END, <<>>)>>

\* STORE 0 <- 1; operation 0, 1 -> 2 with nothing at address 1; END
ProgramUnset(operation) ==
  <<Instr(Op.STORE_CLASSICAL, <<0, 1>>), Instr(operation, <<0, 1, 2>>),
    Instr(Op.END, <<>>)>>

\* STORE 0 <- 1; LOAD 0 -> 1; LOAD 3 -> 4 with nothing at address 3; END
ProgramLoad ==
  <<Instr(Op.STORE_CLASSICAL, <<0, 1>>), Instr(Op.LOAD_CLASSICAL, <<0, 1>>),
    Instr(Op.LOAD_CLASSICAL, <<3, 4>>), Instr(Op.END, <<>>)>>

\* STORE 0 <- 1; ALLOC 0; X 0; then an instruction on a reference that is
\* not allocated; END
ProgramReference(instruction) ==
  <<Instr(Op.STORE_CLASSICAL, <<0, 1>>), Instr(Op.ALLOCATE_QUBIT, <<0>>),
    Instr(Op.GATE_X, <<0>>), instruction, Instr(Op.END, <<>>)>>

\* STORE 0 <- 1; ALLOC 0; X 0; DEALLOC 0; X 0; END
ProgramDeallocated ==
  <<Instr(Op.STORE_CLASSICAL, <<0, 1>>), Instr(Op.ALLOCATE_QUBIT, <<0>>),
    Instr(Op.GATE_X, <<0>>), Instr(Op.DEALLOCATE_QUBIT, <<0>>),
    Instr(Op.GATE_X, <<0>>), Instr(Op.END, <<>>)>>

\* STORE 0 <- 5; NOT 0 -> 0; END (offsets 0, 6, 9)
ProgramNot ==
  <<Instr(Op.STORE_CLASSICAL, <<0, 5>>), Instr(Op.NOT_CLASSICAL, <<0, 0>>),
    Instr(Op.END, <<>>)>>

\* ALLOC 0; ALLOC 0 again; DEALLOC 0; END
ProgramRealloc ==
  <<Instr(Op.ALLOCATE_QUBIT, <<0>>), Instr(Op.ALLOCATE_QUBIT, <<0>>),
    Instr(Op.DEALLOCATE_QUBIT, <<0>>), Instr(Op.END, <<>>)>>

\* one instruction the codec encodes and the switch has no case for; END
ProgramUndispatched ==
  {<<Instr(Op.GATE_PHASE, <<0, "0">>), Instr(Op.END, <<>>)>>,
   <<Instr(Op.GATE_ISWAP, <<0, 1>>), Instr(Op.END, <<>>)>>,
   <<Instr(Op.GATE_FREDKIN, <<0, 1, 2>>), Instr(Op.END, <<>>)>>}

Programs ==
  {ProgramMeasure, ProgramFlow, ProgramBell, ProgramLoad, ProgramDeallocated, ProgramNot,
   ProgramRealloc}
  \cup ProgramUndispatched
  \cup {ProgramBranch(value, target) : value \in {0, 1, 0 - 2}, target \in {18, 12, 200}}
  \cup {ProgramJump(target) : target \in {11, 0, 12, 300}}
  \cup {ProgramALU(Op.DIV_CLASSICAL, 6, 0), ProgramALU(Op.DIV_CLASSICAL, 0 - 7, 2),
        ProgramALU(Op.ADD_CLASSICAL, Int32Max, 1),
        ProgramALU(Op.MUL_CLASSICAL, 65536, 65536)}
  \cup {ProgramUnset(operation) : operation \in {Op.ADD_CLASSICAL, Op.CMP_LT_CLASSICAL}}
  \cup {ProgramReference(instruction) :
          instruction \in {Instr(Op.MEASURE_QUBIT, <<1, 0>>),
                           Instr(Op.DEALLOCATE_QUBIT, <<1>>),
                           Instr(Op.GATE_CNOT, <<0, 1>>),
                           Instr(Op.GATE_TOFFOLI, <<0, 1, 2>>)}}
  \cup {<<Instr(Op.CONDITIONAL_JUMP, <<3, 0>>), Instr(Op.END, <<>>)>>,
        <<Instr(Op.GATE_H, <<0>>), Instr(Op.END, <<>>)>>,
        <<Instr(Op.MEASURE_ALL, <<>>), Instr(Op.END, <<>>)>>,
        <<Instr(Op.LOAD_CLASSICAL, <<5, 6>>)>>,
        <<Instr(Op.STORE_CLASSICAL, <<0, 1>>)>>}

\* the packed instructions of program without their last n bytes
Truncated(program, n) ==
  SubSeq(EncodeAll(program), 1, Len(EncodeAll(program)) - n)

\* buffers whose last instruction lacks operand bytes: ALLOC without its
\* reference, STORE without its value, ADD and MEASURE without their result
\* address, X without its reference
TruncatedBuffers ==
  {Truncated(<<Instr(Op.ALLOCATE_QUBIT, <<0>>)>>, 1),
   Truncated(<<Instr(Op.STORE_CLASSICAL, <<0, 1>>)>>, 2),
   Truncated(ProgramUnset(Op.ADD_CLASSICAL), 2),
   Truncated(<<Instr(Op.ALLOCATE_QUBIT, <<0>>), Instr(Op.MEASURE_QUBIT, <<0, 0>>)>>, 1),
   Truncated(<<Instr(Op.ALLOCATE_QUBIT, <<0>>), Instr(Op.GATE_X, <<0>>)>>, 1)}

\* what loadBytecode() is handed
\* a buffer whose first byte is no opcode of QBCOpcode
RawBuffers == {<<3, 255>>}

Buffers == {EncodeAll(program) : program \in Programs} \cup TruncatedBuffers \cup RawBuffers

\* the options of execute(): none, a maxInstructions of 2 or of 0, a timeout;
\* a maxInstructions that is not given is Undefined, a timeout not given is 0
OptionSets ==
  {[maxInstructions |-> Undefined, timeout |-> 0], [maxInstructions |-> 2, timeout |-> 0],
   [maxInstructions |-> 0, timeout |-> 0], [maxInstructions |-> Undefined, timeout |-> 1]}

(* ------------------------------------------------------------------ *)
(* Running bytecode                                                     *)
(* ------------------------------------------------------------------ *)

\* a step of the interpreter's own interface, outside the loop of execute()
Outside(op, B, raised, phase, viaQBC, options) ==
  /\ bytecodeInterpreter' = B
  /\ run' = [phase |-> phase, options |-> options, viaQBC |-> viaQBC,
             runs |-> IF phase = "running" THEN run.runs + 1 ELSE run.runs,
             raised |-> raised]
  /\ call' = [op |-> op, err |-> raised, ret |-> 0, random |-> Zero]
  /\ hookCalls' = IF phase = "running" THEN NoHookCalls ELSE hookCalls
  /\ bell' = BellOff
  /\ UNCHANGED <<config, stateVector, qubitRegistry, gateExecutor, measurementEngine,
                 uuids, result, resets, codec>>

\* setHook(hookName, callback)
SetHook ==
  \E hookName \in {"beforeInstruction", "afterInstruction", "onError"} :
    /\ run.phase # "running"
    /\ ~bytecodeInterpreter.hooks[hookName]
    /\ Outside("setHook", [bytecodeInterpreter EXCEPT !.hooks[hookName] = TRUE],
               NoError, run.phase, run.viaQBC, run.options)

\* loadBytecode(bytecode)
LoadBytecode ==
  \E bytecode \in Buffers :
    LET l == loadBytecode(bytecodeInterpreter, bytecode)
    IN /\ run.phase # "running"
       /\ run.runs < MaxRuns
       /\ Outside("loadBytecode", l.B, l.err, "idle", FALSE, run.options)

\* execute(options) up to the loop
Execute ==
  \E options \in OptionSets :
    /\ run.phase # "running"
    /\ run.runs < MaxRuns
    /\ IF Len(bytecodeInterpreter.bytecode) = 0
       THEN Outside("execute", bytecodeInterpreter, Thrown("No bytecode loaded", 0),
                    "idle", FALSE, options)
       ELSE Outside("execute", Begin(bytecodeInterpreter), NoError,
                    "running", FALSE, options)

\* executeQBC(createQBC(program), options) up to the loop of execute()
ExecuteQBC ==
  \E program \in {ProgramMeasure, ProgramFlow, ProgramBell}, options \in OptionSets :
    LET buffer == createQBC(program, DefaultOptions).buffer
        parsed == parseQBC(buffer)
        l == loadBytecode(bytecodeInterpreter, buffer)
    IN /\ run.phase # "running"
       /\ run.runs < MaxRuns
       /\ IF parsed.err # NoError
          THEN Outside("executeQBC", bytecodeInterpreter, parsed.err, "idle", TRUE, options)
          ELSE IF l.err # NoError
          THEN Outside("executeQBC", l.B, l.err, "idle", TRUE, options)
          ELSE Outside("executeQBC", Begin(l.B), NoError, "running", TRUE, options)

\* the rest of execute() once the loop is left with the machine as vm
Finish(vm, op, err, random, before, after, onError) ==
  /\ Becomes(vm)
  /\ call' = [op |-> op, err |-> err, ret |-> 0, random |-> random]
  /\ hookCalls' = [beforeInstruction |-> hookCalls.beforeInstruction + before,
                   afterInstruction |-> hookCalls.afterInstruction + after,
                   onError |-> hookCalls.onError + onError]
  /\ IF LoopCondition(vm.bytecodeInterpreter, run.options)
     THEN UNCHANGED <<run, result>>
     ELSE /\ run' = [run EXCEPT !.phase = "done"]
          /\ result' = ExecutionResult(vm)
  /\ bell' = BellOff
  /\ UNCHANGED <<config, resets, codec>>

Count(flag) == IF flag THEN 1 ELSE 0

\* one turn of the loop of execute(): the next instruction, the catch block if
\* it throws, and the return if the loop ends
\* the loop of execute() after executeNextInstruction() has ended as r
Turn(r, drawn) ==
  IF r.err # NoError
  THEN Finish([r.vm EXCEPT !.bytecodeInterpreter = Catch(r.vm.bytecodeInterpreter, r.err)],
              "executeNextInstruction", r.err, drawn, Count(r.before), 0,
              Count(bytecodeInterpreter.hooks.onError))
  ELSE Finish(r.vm, "executeNextInstruction", NoError, drawn, Count(r.before),
              Count(r.after), 0)

Step ==
  \E random \in Draws :
    LET opcode == ByteAt(bytecodeInterpreter.bytecode, bytecodeInterpreter.pc)
    IN /\ run.phase = "running"
       /\ LoopCondition(bytecodeInterpreter, run.options)
       /\ bytecodeInterpreter.metrics.instructionsExecuted < MaxSteps
       /\ uuids' = IF opcode = Op.ALLOCATE_QUBIT
                      /\ Cardinality(DOMAIN qubitRegistry.qubits) < qubitRegistry.maxQubits
                   THEN uuids + 1 ELSE uuids
       /\ Turn(executeNextInstruction(Machine, uuids + 1, random),
               IF opcode = Op.MEASURE_QUBIT THEN random ELSE Zero)

\* one turn of the loop in which performance.now() has passed endTime
Timeout ==
  LET error == Thrown("Execution timeout", run.options.timeout)
  IN /\ run.phase = "running"
     /\ LoopCondition(bytecodeInterpreter, run.options)
     /\ run.options.timeout # 0
     /\ Finish([Machine EXCEPT !.bytecodeInterpreter = Catch(bytecodeInterpreter, error)],
               "timeout", error, Zero, 0, 0, Count(bytecodeInterpreter.hooks.onError))
     /\ UNCHANGED uuids

NextRun ==
  \/ SetHook
  \/ LoadBytecode
  \/ Execute
  \/ ExecuteQBC
  \/ Step
  \/ Timeout
  \/ Reset

SpecRun == Init /\ [][NextRun]_vars

(* ------------------------------------------------------------------ *)
(* Circuits of X, H and Toffoli gates on a machine of three qubits      *)
(* ------------------------------------------------------------------ *)
\* initialize({maxQubits: 3})
InitGates ==
  /\ config = [maxQubits |-> GateMaxQubits, debugMode |-> FALSE]
  /\ stateVector = NewStateVector(0, GateMaxQubits)
  /\ qubitRegistry = NewQubitRegistry(RegistryMaxQubits)
  /\ gateExecutor = NewGateExecutor
  /\ measurementEngine = NewMeasurementEngine
  /\ bytecodeInterpreter = NewBytecodeInterpreter
  /\ uuids = 0
  /\ run = Idle
  /\ result = NoResult
  /\ hookCalls = NoHookCalls
  /\ call = [op |-> "initialize", err |-> NoError, ret |-> 0, random |-> Zero]
  /\ bell = BellStart
  /\ resets = 0
  /\ codec = NoCodecCall

CircuitGate ==
  \E qubitId \in Handles, gateName \in {"X", "H"} :
    /\ gateExecutor.metrics.totalGatesExecuted < MaxCircuitGates
    /\ Api("applySingleQubitGate", <<qubitId, gateName>>,
           GateExecutor_applySingleQubitGate(Machine, qubitId, gateName), Zero)
    /\ UNCHANGED uuids

CircuitToffoli ==
  \E control1QubitId \in Handles, control2QubitId \in Handles, targetQubitId \in Handles :
    /\ gateExecutor.metrics.totalGatesExecuted < MaxCircuitGates
    /\ Api("applyToffoli", <<control1QubitId, control2QubitId, targetQubitId>>,
           GateExecutor_applyToffoli(Machine, control1QubitId, control2QubitId,
                                     targetQubitId), Zero)
    /\ UNCHANGED uuids

CircuitResetQubit ==
  \E qubitId \in Handles, random \in Draws :
    /\ gateExecutor.metrics.totalGatesExecuted < MaxCircuitGates
    /\ Api("resetQubit", <<qubitId>>, GateExecutor_resetQubit(Machine, qubitId, random), random)
    /\ UNCHANGED uuids

NextGates ==
  \/ AllocateQubit
  \/ CircuitGate
  \/ CircuitToffoli
  \/ CircuitResetQubit

SpecGates == InitGates /\ [][NextGates]_vars

(* ------------------------------------------------------------------ *)
(* The methods of a StateVector called directly, as tests/state-vector  *)
(* does                                                                 *)
(* ------------------------------------------------------------------ *)
\* new StateVector(n, {maxQubits: VectorMaxQubits})
InitVector ==
  /\ config = [maxQubits |-> VectorMaxQubits, debugMode |-> FALSE]
  /\ stateVector \in {NewStateVector(n, VectorMaxQubits) : n \in 0..VectorMaxQubits}
  /\ qubitRegistry = NewQubitRegistry(RegistryMaxQubits)
  /\ gateExecutor = NewGateExecutor
  /\ measurementEngine = NewMeasurementEngine
  /\ bytecodeInterpreter = NewBytecodeInterpreter
  /\ uuids = 0
  /\ run = Idle
  /\ result = NoResult
  /\ hookCalls = NoHookCalls
  /\ call = [op |-> "new StateVector", err |-> NoError, ret |-> 0, random |-> Zero]
  /\ bell = BellStart
  /\ resets = 0
  /\ codec = NoCodecCall

\* a method of the state vector returned r
VectorCall(op, r, ret, random) ==
  /\ stateVector' = r.S
  /\ call' = [op |-> op, err |-> r.err, ret |-> ret, random |-> random]
  /\ UNCHANGED <<config, qubitRegistry, gateExecutor, measurementEngine, bytecodeInterpreter,
                 uuids, run, result, hookCalls, bell, resets, codec>>

QubitIndices == 0..(VectorMaxQubits - 1)

\* X, H, Z, RX(pi) and RX(-pi)
SingleQubitMatrices ==
  {GATES["X"], GATES["H"], GATES["Z"], RotationMatrix("RX", "pi"), RotationMatrix("RX", "-pi")}

VectorExpand == VectorCall("expandStateVector", expandStateVector(stateVector), 0, Zero)

VectorSingleQubitGate ==
  \E qubitIndex \in QubitIndices, gateMatrix \in SingleQubitMatrices :
    /\ stateVector.metrics.gateOperations < MaxVectorGates
    /\ VectorCall("applySingleQubitGate",
                  applySingleQubitGate(stateVector, qubitIndex, gateMatrix), 0, Zero)

VectorTwoQubitGate ==
  \E c \in QubitIndices, t \in QubitIndices, gateMatrix \in {CNOTMatrix, CZMatrix} :
    /\ stateVector.metrics.gateOperations < MaxVectorGates
    /\ VectorCall("applyTwoQubitGate", applyTwoQubitGate(stateVector, c, t, gateMatrix),
                  0, Zero)

VectorCNOT ==
  \E c \in QubitIndices, t \in QubitIndices :
    /\ stateVector.metrics.gateOperations < MaxVectorGates
    /\ VectorCall("applyCNOT", applyCNOT(stateVector, c, t), 0, Zero)

VectorMeasure ==
  \E qubitIndex \in QubitIndices, random \in Draws :
    VectorCall("measureQubit", StateVector_measureQubit(stateVector, qubitIndex, random),
               StateVector_measureQubit(stateVector, qubitIndex, random).ret, random)

VectorSet ==
  \E newStateVector \in Candidates(VLen(stateVector.stateVector)) :
    VectorCall("setStateVector", setStateVector(stateVector, newStateVector), 0, Zero)

VectorNormalize == VectorCall("normalize", normalize(stateVector), 0, Zero)

VectorReset == VectorCall("reset", StateVector_reset(stateVector), 0, Zero)

VectorGetProbability ==
  \E basisState \in 0..Pow2(VectorMaxQubits) :
    VectorCall("getProbability", StateVector_getProbability(stateVector, basisState),
               StateVector_getProbability(stateVector, basisState).ret, Zero)

NextVector ==
  \/ VectorExpand
  \/ VectorSingleQubitGate
  \/ VectorTwoQubitGate
  \/ VectorCNOT
  \/ VectorMeasure
  \/ VectorSet
  \/ VectorNormalize
  \/ VectorReset
  \/ VectorGetProbability

SpecVector == InitVector /\ [][NextVector]_vars

(* ------------------------------------------------------------------ *)
(* The functions of types/qbc.js applied to instructions and programs   *)
(* ------------------------------------------------------------------ *)
\* operand bytes, angles, jump targets and store values handed to the codec;
\* the largest jump target is the largest integer of the model checker
OperandBytes == {0, 255}
Angles == {"0", "pi", "fround(pi)"}
JumpTargets == {0, 258, Int32Max}
StoreValues == {Int32Min, 0 - 1, 0, 65536, Int32Max}
UnknownOpcodes == {0, 3, 254}

OperandTuples(op) ==
  IF op \in {Op.GATE_RX, Op.GATE_RY, Op.GATE_RZ, Op.GATE_PHASE}
  THEN {<<q, theta>> : q \in OperandBytes, theta \in Angles}
  ELSE IF op = Op.CONDITIONAL_JUMP
  THEN {<<a, target>> : a \in OperandBytes, target \in JumpTargets}
  ELSE IF op = Op.JUMP THEN {<<target>> : target \in JumpTargets}
  ELSE IF op = Op.STORE_CLASSICAL
  THEN {<<a, value>> : a \in OperandBytes, value \in StoreValues}
  ELSE IF op \in OpcodeValues THEN [1..getParameterSize(op) -> OperandBytes]
  ELSE {<<0>>}

Instructions ==
  UNION {{Instr(op, params) : params \in OperandTuples(op)} :
           op \in OpcodeValues \cup UnknownOpcodes}

\* the arguments of createQBC: an instruction list, the maxQubits option and the
\* metadata option, an object with the properties a and b
InstructionLists ==
  {<<>>, ProgramMeasure, ProgramFlow, ProgramBell,
   <<Instr(Op.ALLOCATE_QUBIT, <<0>>), Instr(Op.GATE_RX, <<0, "pi">>), Instr(Op.END, <<>>)>>,
   <<Instr(Op.ALLOCATE_QUBIT, <<0>>), Instr(Op.GATE_RX, <<0, "fround(pi)">>),
     Instr(Op.END, <<>>)>>}

MetadataObjects == {EmptyMap, MapSet(EmptyMap, 97, 1), MapSet(MapSet(EmptyMap, 97, 1), 98, 2)}

QBCInputs ==
  {[instructions |-> l, options |-> [maxQubits |-> n, metadata |-> m]] :
     l \in InstructionLists, n \in {1, 8, 300, 65535}, m \in MetadataObjects}

CodecCall(op, input, buffer, output) ==
  [op |-> op, input |-> input, buffer |-> buffer, output |-> output]

\* the machine is constructed and an instruction or a program is at hand
InitCodec ==
  /\ config = [maxQubits |-> ConfigMaxQubits, debugMode |-> FALSE]
  /\ stateVector = NewStateVector(0, ConfigMaxQubits)
  /\ qubitRegistry = NewQubitRegistry(RegistryMaxQubits)
  /\ gateExecutor = NewGateExecutor
  /\ measurementEngine = NewMeasurementEngine
  /\ bytecodeInterpreter = NewBytecodeInterpreter
  /\ uuids = 0
  /\ run = Idle
  /\ result = NoResult
  /\ hookCalls = NoHookCalls
  /\ call = [op |-> "initialize", err |-> NoError, ret |-> 0, random |-> Zero]
  /\ bell = BellStart
  /\ resets = 0
  /\ codec \in {CodecCall("instruction", i, <<>>, <<>>) : i \in Instructions}
                 \cup {CodecCall("program", x, <<>>, <<>>) : x \in QBCInputs}

MachineUntouched ==
  UNCHANGED <<config, stateVector, qubitRegistry, gateExecutor, measurementEngine,
              bytecodeInterpreter, uuids, run, result, hookCalls, call, bell, resets>>

EncodeInstruction ==
  /\ codec.op = "instruction"
  /\ codec' = CodecCall("encodeInstruction", codec.input,
                        encodeInstruction(codec.input).buffer,
                        encodeInstruction(codec.input))
  /\ MachineUntouched

\* decodeInstruction(buffer, 0) on what encodeInstruction returned or, when it
\* threw, on a buffer that starts with the opcode it refused
DecodeInstruction ==
  LET buffer == IF codec.output.err = NoError THEN codec.buffer
                ELSE <<codec.input.op>> \o codec.input.params
  IN /\ codec.op = "encodeInstruction"
     /\ codec' = CodecCall("decodeInstruction", codec.input, buffer,
                           decodeInstruction(buffer, 0))
     /\ MachineUntouched

CreateQBC ==
  /\ codec.op = "program"
  /\ codec' = CodecCall("createQBC", codec.input,
                        createQBC(codec.input.instructions, codec.input.options).buffer,
                        createQBC(codec.input.instructions, codec.input.options))
  /\ MachineUntouched

ParseQBC ==
  /\ codec.op = "createQBC"
  /\ codec.output.err = NoError
  /\ codec' = CodecCall("parseQBC", codec.input, codec.buffer, parseQBC(codec.buffer))
  /\ MachineUntouched

NextCodec ==
  \/ EncodeInstruction
  \/ DecodeInstruction
  \/ CreateQBC
  \/ ParseQBC

SpecCodec == InitCodec /\ [][NextCodec]_vars

(* ------------------------------------------------------------------ *)
(* Properties                                                           *)
(* ------------------------------------------------------------------ *)
\* the classical memory holds the integer n at address addr
Holds(mem, addr, n) == MapHas(mem, addr) /\ mem[addr] = Int32(n)

NoOptions == [maxInstructions |-> Undefined, timeout |-> 0]

\* the sum of the squared magnitudes of the amplitudes of v
NormSquared(v) == SumOver(v, DOMAIN v, Zero)

\* y = x / sqrt(p) for numbers x, y and p > 0 of the ring
IsQuotientBySqrt(y, x, p) ==
  (~y.nan) /\ (~x.nan) /\ NumMul(NumMul(y, y), p) = NumMul(x, x) /\ Sign(y) = Sign(x)

\* C1: when an instruction (or the timeout check) raises an error during
\* execute(), the error is captured and not re-raised: the run ends in that very
\* turn of the loop with running = false, the on-error hook is called exactly once
\* if it is installed, the returned record has success = false and carries the
\* error, and no instruction is executed once the run has ended.
C1_ErrorCaptured ==
  [][/\ (run.phase = "running" /\ bytecodeInterpreter'.error # NoError)
          => /\ run'.phase = "done"
             /\ ~bytecodeInterpreter'.running
             /\ run'.raised = NoError
             /\ result'.success = FALSE
             /\ result'.error = bytecodeInterpreter'.error
             /\ result'.error = call'.err
             /\ hookCalls'.onError = Count(bytecodeInterpreter.hooks.onError)
     /\ (run.phase = "done")
          => call'.op \notin {"executeNextInstruction", "timeout"}]_vars

\* a run that an instruction's error has ended, with the on-error hook installed
C1_Witness ==
  /\ run.phase = "done"
  /\ call.op = "executeNextInstruction"
  /\ bytecodeInterpreter.error # NoError
  /\ bytecodeInterpreter.metrics.instructionsExecuted > 0
  /\ bytecodeInterpreter.hooks.onError
  /\ hookCalls.onError = 1

\* C2: executeQBC(createQBC(L)) fetches no header byte as an opcode: a run
\* started through executeQBC without options ends with success = true, and for
\* L = [ALLOC 0, H 0, MEASURE 0 -> 0, END] classical address 0 then holds 0 or 1.
C2_QBCRunsInstructions ==
  (run.viaQBC /\ run.phase = "done" /\ run.options = NoOptions)
    => /\ result.success
       /\ bytecodeInterpreter.bytecode = createQBC(ProgramMeasure, DefaultOptions).buffer
            => /\ MapHas(result.classicalMemory, 0)
               /\ result.classicalMemory[0] \in {Int32(0), Int32(1)}

\* C3: after allocate, gate application, measurement, normalize and
\* setStateVector the squared magnitudes of the amplitudes sum to 1 (and so no
\* amplitude is NaN).
C3_NormIsOne ==
  (call.op \in {"initialize", "allocateQubit", "applySingleQubitGate", "applyRotation",
                "applyCNOT", "applyCZ", "applyToffoli", "applyControlledGate",
                "measureQubit", "normalize", "setStateVector"})
    => NormSquared(stateVector.stateVector) = One

\* C4: a collapsing measurement of the qubit at bit k that returns r (r = 0 iff
\* the draw is below p0) leaves zero at every index whose bit k differs from r and
\* leaves at every other index the amplitude it had before divided by the square
\* root of the probability of r.
C4_CollapseDividesBySqrt ==
  [][(/\ call'.op = "measureQubit"
      /\ call'.err = NoError
      /\ Len(measurementEngine'.measurementHistory) > Len(measurementEngine.measurementHistory))
       => LET v == stateVector.stateVector
              w == stateVector'.stateVector
              last == measurementEngine'.measurementHistory[Len(measurementEngine'.measurementHistory)]
              k == qubitRegistry.qubits[last.qubitId]
              r == call'.ret
              p == SumOver(v, {i \in DOMAIN v : Bit(i, k) = r}, Zero)
              p0 == SumOver(v, {i \in DOMAIN v : Bit(i, k) = 0}, Zero)
          IN /\ (r = 0) <=> NumLess(call'.random, p0)
             /\ DOMAIN w = DOMAIN v
             /\ \A i \in DOMAIN v :
                  IF Bit(i, k) # r THEN w[i] = CZero
                  ELSE /\ IsQuotientBySqrt(w[i].real, v[i].real, p)
                       /\ IsQuotientBySqrt(w[i].imag, v[i].imag, p)]_vars

\* C5: on two freshly allocated qubits q0 and q1, H(q0); CNOT(q0, q1); measure q0;
\* measure q1 yields 00 or 11 whatever the draws.
C5_BellOutcomesAgree == (bell.stage = 6) => (bell.r0 = bell.r1)

\* C6: an allocateQubit call that fails leaves the live handles, the
\* next-bit-position counter, the entanglement sets and the state vector as they
\* were before the call.
C6_FailedAllocateMutatesNothing ==
  [][(call'.op = "allocateQubit" /\ call'.err # NoError)
       => /\ qubitRegistry'.qubits = qubitRegistry.qubits
          /\ qubitRegistry'.nextQubitIndex = qubitRegistry.nextQubitIndex
          /\ qubitRegistry'.entanglementGroups = qubitRegistry.entanglementGroups
          /\ stateVector'.stateVector = stateVector.stateVector]_vars

\* C7: after the facade's reset() the machine has zero qubits: one amplitude, no
\* live handle, bit-position counter 0, empty classical memory, qubit-reference
\* map, per-handle measurement store and measurement history, and the
\* configuration it was initialized with.
C7_ResetClearsEverything ==
  (call.op = "reset" /\ call.err = NoError)
    => /\ VLen(stateVector.stateVector) = 1
       /\ stateVector.qubitCount = 0
       /\ qubitRegistry.qubits = EmptyMap
       /\ qubitRegistry.nextQubitIndex = 0
       /\ bytecodeInterpreter.classicalMemory = EmptyMap
       /\ bytecodeInterpreter.qubitIdMap = EmptyMap
       /\ measurementEngine.measurementResults = EmptyMap
       /\ measurementEngine.measurementHistory = <<>>
       /\ config = [maxQubits |-> ConfigMaxQubits, debugMode |-> FALSE]

\* the instruction at the program counter, read as a jump
JumpAtPc ==
  LET B == bytecodeInterpreter
      opcode == ByteAt(B.bytecode, B.pc)
      isJump == opcode = Op.JUMP /\ B.pc + 5 <= Len(B.bytecode)
      isBranch == opcode = Op.CONDITIONAL_JUMP /\ B.pc + 6 <= Len(B.bytecode)
      cond == ByteAt(B.bytecode, B.pc + 1)
  IN [isJump |-> isJump,
      isBranch |-> isBranch,
      set |-> isBranch /\ MapHas(B.classicalMemory, cond),
      taken |-> isBranch /\ MapHas(B.classicalMemory, cond) /\ B.classicalMemory[cond] # Int32(0),
      target |-> IF isJump THEN readUInt32LE(B.bytecode, B.pc + 1)
                 ELSE IF isBranch THEN readUInt32LE(B.bytecode, B.pc + 2) ELSE 0,
      next |-> B.pc + 6]

\* the step is one turn of the loop of execute() that executes an instruction
InstructionStep == run.phase = "running" /\ call'.op = "executeNextInstruction"

\* C8: executing JMP, or a taken CJMP, whose target lies outside [0, buffer
\* length) is an error: the run ends with success = false.
C8_JumpOutOfRangeFails ==
  [][(/\ InstructionStep
      /\ JumpAtPc.isJump \/ JumpAtPc.taken
      /\ JumpAtPc.target >= Len(bytecodeInterpreter.bytecode))
       => /\ run'.phase = "done"
          /\ result'.success = FALSE]_vars

\* C9: CJMP cond, target sets the program counter to target when the integer at
\* classical address cond is nonzero, leaves it at the byte after the 6-byte
\* instruction when that integer is zero, and is an error when cond was never
\* written; JMP sets the program counter to its target.
C9_JumpSemantics ==
  [][InstructionStep
       => LET j == JumpAtPc
              pc == bytecodeInterpreter'.pc
              error == bytecodeInterpreter'.error
          IN /\ j.isJump => (error = NoError /\ pc = j.target)
             /\ (j.isBranch /\ ~j.set) => (error # NoError /\ ~result'.success)
             /\ (j.isBranch /\ j.taken) => (error = NoError /\ pc = j.target)
             /\ (j.isBranch /\ j.set /\ ~j.taken) => (error = NoError /\ pc = j.next)]_vars

\* a finished run whose branch on a nonzero value skipped the STORE behind it
C9_Witness ==
  /\ bytecodeInterpreter.bytecode = EncodeAll(ProgramBranch(1, 18))
  /\ run.phase = "done"
  /\ result.success
  /\ result.metrics.jumpOps = 1
  /\ ~MapHas(result.classicalMemory, 1)

\* the classical control flow program has run to its end under execute()
FlowFinished ==
  /\ bytecodeInterpreter.bytecode = EncodeAll(ProgramFlow)
  /\ ~run.viaQBC
  /\ run.options = NoOptions
  /\ run.phase = "done"

\* C10 as stated: the classical control flow program ends with address 2 = 2,
\* address 3 = 1 and address 4 unset.
C10_FlowAsStated ==
  FlowFinished
    => /\ Holds(result.classicalMemory, 2, 2)
       /\ Holds(result.classicalMemory, 3, 1)
       /\ ~MapHas(result.classicalMemory, 4)

\* C10: the classical control flow program ends successfully with address 2 = 2,
\* address 3 = 0 (2 > 3 is false), and, the branch not being taken, address 4 = 99.
C10_FlowResult ==
  FlowFinished
    => /\ result.success
       /\ Holds(result.classicalMemory, 2, 2)
       /\ Holds(result.classicalMemory, 3, 0)
       /\ Holds(result.classicalMemory, 4, 99)

\* the classical control flow program has run all seven instructions
C10_Witness ==
  /\ FlowFinished
  /\ result.success
  /\ result.metrics.instructionsExecuted = 7

\* the instruction at the program counter: its opcode, whether all its operand
\* bytes are in the buffer, and its first three operand bytes
InstructionAtPc ==
  LET B == bytecodeInterpreter
      opcode == ByteAt(B.bytecode, B.pc)
  IN [opcode |-> opcode,
      complete |-> B.pc + 1 + getOpcodeOperandSize(opcode) <= Len(B.bytecode),
      a |-> ByteAt(B.bytecode, B.pc + 1),
      b |-> ByteAt(B.bytecode, B.pc + 2),
      c |-> ByteAt(B.bytecode, B.pc + 3)]

\* the quotient of a by b # 0 truncated toward zero
Magnitude(n) == IF n < 0 THEN 0 - n ELSE n
TruncatedQuotient(a, b) ==
  IF (a < 0) = (b < 0) THEN Magnitude(a) \div Magnitude(b)
  ELSE 0 - (Magnitude(a) \div Magnitude(b))

\* C11: DIV_CLASSICAL on two operands that are set stores the quotient
\* truncated toward zero (-7 / 2 = -3) and changes no other address; with the
\* divisor 0 it is a runtime error that leaves the classical memory as it was.
C11_DivTruncatesTowardZero ==
  [][(/\ InstructionStep
      /\ InstructionAtPc.opcode = Op.DIV_CLASSICAL
      /\ InstructionAtPc.complete
      /\ MapHas(bytecodeInterpreter.classicalMemory, InstructionAtPc.a)
      /\ MapHas(bytecodeInterpreter.classicalMemory, InstructionAtPc.b))
       => LET mem == bytecodeInterpreter.classicalMemory
              i == InstructionAtPc
          IN IF mem[i.b] = Int32(0)
             THEN /\ call'.err # NoError
                  /\ bytecodeInterpreter'.classicalMemory = mem
             ELSE /\ call'.err = NoError
                  /\ bytecodeInterpreter'.classicalMemory =
                       MapSet(mem, i.c, Int32(TruncatedQuotient(Narrow(mem[i.a]),
                                                                Narrow(mem[i.b]))))]_vars

\* C12: every value held in the classical memory is a 32-bit signed integer,
\* whatever instructions have run: a result of ADD, SUB, MUL or DIV outside
\* [-2^31, 2^31 - 1] has been wrapped into that range.
C12_ValuesStayInt32 ==
  \A addr \in DOMAIN bytecodeInterpreter.classicalMemory :
    IsInt32(bytecodeInterpreter.classicalMemory[addr])

\* the opcodes that read classical operands: the addresses they read
BinaryOpcodes ==
  {Op.ADD_CLASSICAL, Op.SUB_CLASSICAL, Op.MUL_CLASSICAL, Op.DIV_CLASSICAL,
   Op.AND_CLASSICAL, Op.OR_CLASSICAL, Op.XOR_CLASSICAL,
   Op.CMP_EQ_CLASSICAL, Op.CMP_NEQ_CLASSICAL, Op.CMP_LT_CLASSICAL, Op.CMP_GT_CLASSICAL}
SourceOperands ==
  IF InstructionAtPc.opcode = Op.LOAD_CLASSICAL THEN {InstructionAtPc.a}
  ELSE {InstructionAtPc.a, InstructionAtPc.b}

\* C13: LOAD_CLASSICAL, a binary operation or a comparison one of whose source
\* addresses was never written is a runtime error that ends the run and leaves
\* the classical memory as it was; with every source address written it does
\* not fail, division by zero apart.
C13_UnsetOperandFails ==
  [][(/\ InstructionStep
      /\ InstructionAtPc.opcode \in BinaryOpcodes \cup {Op.LOAD_CLASSICAL}
      /\ InstructionAtPc.complete)
       => LET mem == bytecodeInterpreter.classicalMemory
          IN IF \E addr \in SourceOperands : ~MapHas(mem, addr)
             THEN /\ call'.err # NoError
                  /\ run'.phase = "done"
                  /\ ~result'.success
                  /\ bytecodeInterpreter'.classicalMemory = mem
             ELSE \/ call'.err = NoError
                  \/ /\ InstructionAtPc.opcode = Op.DIV_CLASSICAL
                     /\ mem[InstructionAtPc.b] = Int32(0)]_vars

\* a run that a binary operation on an address never written has ended, the
\* classical memory still holding what was stored before
C13_Witness ==
  /\ run.phase = "done"
  /\ call.op = "executeNextInstruction"
  /\ call.err = Thrown("Operand values not set", 0)
  /\ bytecodeInterpreter.bytecode = EncodeAll(ProgramUnset(Op.ADD_CLASSICAL))
  /\ bytecodeInterpreter.classicalMemory = MapSet(EmptyMap, 0, Int32(1))

\* execute() has returned because instructionsExecuted reached the
\* maxInstructions it was given: the loop was left with running still set and
\* the program counter inside the buffer
StoppedByCap ==
  /\ run.phase = "done"
  /\ run.options.maxInstructions \notin {Undefined, 0}
  /\ bytecodeInterpreter.running
  /\ bytecodeInterpreter.pc < Len(bytecodeInterpreter.bytecode)
  /\ bytecodeInterpreter.metrics.instructionsExecuted >= run.options.maxInstructions

\* C14: when execute() stops because the instruction cap was reached, the
\* result says so: it is not the result of a normal end, success = true with
\* no error.
C14_CapIsReported ==
  StoppedByCap => ~(result.success /\ result.error = NoError)

\* C15: a run given maxInstructions = m >= 0 ends having executed at most m
\* instructions, whatever the program (a loop that never ends included).
C15_CapBoundsInstructions ==
  (run.phase = "done" /\ run.options.maxInstructions # Undefined)
    => result.metrics.instructionsExecuted <= run.options.maxInstructions

\* the qubit references the instruction at the program counter names, if it
\* is a gate, MEASURE or DEALLOC
QubitReferences ==
  LET i == InstructionAtPc
  IN IF i.opcode \in {Op.DEALLOCATE_QUBIT, Op.MEASURE_QUBIT, Op.GATE_X, Op.GATE_Y,
                      Op.GATE_Z, Op.GATE_H, Op.GATE_S, Op.GATE_T, Op.GATE_RX,
                      Op.GATE_RY, Op.GATE_RZ}
     THEN {i.a}
     ELSE IF i.opcode \in {Op.GATE_CNOT, Op.GATE_CZ, Op.GATE_SWAP} THEN {i.a, i.b}
     ELSE IF i.opcode = Op.GATE_TOFFOLI THEN {i.a, i.b, i.c}
     ELSE {}

\* C16: a gate, MEASURE or DEALLOC instruction naming a qubit reference that
\* no ALLOC of the program has bound, or that a DEALLOC has released, is an
\* error that ends the run with success = false and leaves the state vector,
\* the registry and the classical memory as they were.
C16_InvalidReferenceFails ==
  [][(/\ InstructionStep
      /\ InstructionAtPc.complete
      /\ \E qubitRef \in QubitReferences :
           ~MapHas(bytecodeInterpreter.qubitIdMap, qubitRef))
       => /\ call'.err # NoError
          /\ run'.phase = "done"
          /\ ~result'.success
          /\ stateVector' = stateVector
          /\ qubitRegistry' = qubitRegistry
          /\ bytecodeInterpreter'.classicalMemory = bytecodeInterpreter.classicalMemory]_vars

\* the run of [STORE 0 <- 1, ALLOC 0, X 0, DEALLOC 0, X 0, END] ended by the
\* second X: the reference is released, the amplitudes are those the first X
\* left and the classical memory holds what was stored
C16_Witness ==
  /\ run.phase = "done"
  /\ bytecodeInterpreter.bytecode = EncodeAll(ProgramDeallocated)
  /\ call.err = Thrown("Invalid qubit reference", 0)
  /\ ~MapHas(bytecodeInterpreter.qubitIdMap, 0)
  /\ stateVector.stateVector[1] = COne
  /\ stateVector.stateVector[0] = CZero
  /\ Holds(bytecodeInterpreter.classicalMemory, 0, 1)

\* C17: an instruction whose operand bytes are not all in the buffer is not
\* executed: the turn of the loop that reaches it is an error that ends the
\* run, and neither the registry (ALLOC as the last byte allocates nothing),
\* the state vector nor the classical memory changes.
C17_TruncatedInstructionFails ==
  [][(InstructionStep /\ ~InstructionAtPc.complete)
       => /\ call'.err # NoError
          /\ run'.phase = "done"
          /\ ~result'.success
          /\ qubitRegistry' = qubitRegistry
          /\ stateVector' = stateVector
          /\ bytecodeInterpreter'.classicalMemory = bytecodeInterpreter.classicalMemory]_vars

\* C18: on the live handles areEntangled is reflexive, symmetric and
\* transitive, whatever allocateQubit, recordEntanglement and deallocateQubit
\* calls came before: every live handle is in exactly one entanglement set.
C18_EntanglementPartitions ==
  LET R == qubitRegistry
      live == DOMAIN R.qubits
  IN /\ \A a \in live : areEntangled(R, a, a)
     /\ \A a, b \in live : areEntangled(R, a, b) => areEntangled(R, b, a)
     /\ \A a, b, c \in live :
          (areEntangled(R, a, b) /\ areEntangled(R, b, c)) => areEntangled(R, a, c)

\* the step is the call op of the gate executor ending as r
GateCall(op, r) ==
  /\ call'.op = op
  /\ call'.err = r.err
  /\ qubitRegistry' = r.vm.qubitRegistry
  /\ stateVector' = r.vm.stateVector
  /\ gateExecutor' = r.vm.gateExecutor

\* the live handles whose bit position is a qubit of the state vector
Operands ==
  {h \in DOMAIN qubitRegistry.qubits : qubitRegistry.qubits[h] < stateVector.qubitCount}

\* the call has applied the gate and every pair of handles is entangled
AppliedAndEntangled(handles) ==
  /\ call'.err = NoError
  /\ \A a, b \in handles : areEntangled(qubitRegistry', a, b)

C20_PositionsNeverReused ==
  [][(call'.op # "reset")
       => LET R == qubitRegistry
              allocated == DOMAIN R'.qubits \ DOMAIN R.qubits
          IN /\ R'.nextQubitIndex >= R.nextQubitIndex
             /\ \A h \in DOMAIN R'.qubits : R'.qubits[h] < R'.nextQubitIndex
             /\ \A g, h \in DOMAIN R'.qubits : (g # h) => R'.qubits[g] # R'.qubits[h]
             /\ \A h \in allocated :
                  /\ call'.op = "allocateQubit"
                  /\ R'.qubits[h] = R.nextQubitIndex
                  /\ R'.nextQubitIndex = R.nextQubitIndex + 1
                  /\ \A g \in DOMAIN R.qubits : R.qubits[g] < R'.qubits[h]
             /\ \A g \in DOMAIN R.qubits \cap DOMAIN R'.qubits : R'.qubits[g] = R.qubits[g]
             /\ (call'.op = "deallocateQubit")
                  => /\ stateVector'.stateVector = stateVector.stateVector
                     /\ stateVector'.qubitCount = stateVector.qubitCount
                     /\ R'.nextQubitIndex = R.nextQubitIndex]_vars

\* handle 1 was allocated at position 0 and deallocated; handle 2, allocated
\* next, is at position 1 and the state vector still has two qubits
C20_Witness ==
  /\ resets = 0
  /\ call.op = "deallocateQubit"
  /\ call.err = NoError
  /\ call.ret = 1
  /\ DOMAIN qubitRegistry.qubits = {2}
  /\ qubitRegistry.qubits[2] = 1
  /\ stateVector.qubitCount = 2
  /\ VLen(stateVector.stateVector) = 4

\* the machine as reset() left it, but for the qubits allocated since: bell.stage
\* counts the allocations that succeeded when nothing else was called
SinceReset(n) == resets > 0 /\ bell.stage = n /\ n \in 0..ConfigMaxQubits

\* C21: for every n from 0 to the qubit limit, measureAllQubits called after a
\* reset and n allocations returns, without error, the string of n zeros,
\* whatever Math.random() gives.
C21_FreshMachineMeasuresZeros ==
  [][\A n \in 0..ConfigMaxQubits :
       (SinceReset(n) /\ call'.op = "measureAllQubits")
         => (call'.err = NoError /\ call'.ret = [i \in 1..n |-> 0])]_vars

\* the place of handle q among the live handles when they are ordered by bit position
PlaceByPosition(q) ==
  1 + Cardinality({p \in DOMAIN qubitRegistry.qubits :
                     qubitRegistry.qubits[p] < qubitRegistry.qubits[q]})

\* the entries measureAllQubits added to the history
AddedHistory ==
  SubSeq(measurementEngine'.measurementHistory,
         Len(measurementEngine.measurementHistory) + 1,
         Len(measurementEngine'.measurementHistory))

\* C22: measureAllQubits measures every live handle exactly once and returns one
\* character for each live handle, the characters ordered by the bit positions
\* of the handles.
C22_MeasuresEachLiveHandleOnce ==
  [][call'.op = "measureAllQubits"
       => LET live == DOMAIN qubitRegistry.qubits
          IN /\ call'.err = NoError
             /\ \A q \in live :
                  Cardinality({j \in 1..Len(AddedHistory) : AddedHistory[j].qubitId = q}) = 1
             /\ Len(AddedHistory) = Cardinality(live)
             /\ Len(call'.ret) = Cardinality(live)
             /\ \A q \in live :
                  call'.ret[PlaceByPosition(q)] = measurementEngine'.measurementResults[q]]_vars

ReadOnlyCalls == {"measureQubit(nonCollapsing)", "getProbability", "getJointProbability", "sample"}

\* C23: measureQubit with nonCollapsing = true, getProbability, getJointProbability
\* and sample leave the state vector, the per-handle measurement results, the
\* measurement history and the measurement metrics as they were, whether they
\* return or throw.
C23_ReadOnlyCallsChangeNothing ==
  [][call'.op \in ReadOnlyCalls
       => (stateVector' = stateVector /\ measurementEngine' = measurementEngine)]_vars

\* a non-collapsing measurement of a qubit in superposition returned 1 and nothing
\* has been recorded
C23_Witness ==
  /\ call.op = "measureQubit(nonCollapsing)"
  /\ call.err = NoError
  /\ call.ret = 1
  /\ stateVector.qubitCount = 1
  /\ magnitudeSquared(stateVector.stateVector[1]) = Num(1, 0, 1)
  /\ measurementEngine.measurementHistory = <<>>

\* the Total column of the instruction table: bytes of an encoded instruction
TableTotal(op) ==
  IF op \in {Op.END, Op.MEASURE_ALL} THEN 1
  ELSE IF op \in {Op.ALLOCATE_QUBIT, Op.DEALLOCATE_QUBIT, Op.GATE_X, Op.GATE_Y, Op.GATE_Z,
                  Op.GATE_H, Op.GATE_S, Op.GATE_T} THEN 2
  ELSE IF op \in {Op.GATE_CNOT, Op.GATE_CZ, Op.GATE_SWAP, Op.GATE_ISWAP, Op.MEASURE_QUBIT,
                  Op.LOAD_CLASSICAL, Op.NOT_CLASSICAL} THEN 3
  ELSE IF op \in {Op.GATE_RX, Op.GATE_RY, Op.GATE_RZ, Op.GATE_PHASE, Op.CONDITIONAL_JUMP,
                  Op.STORE_CLASSICAL} THEN 6
  ELSE IF op = Op.JUMP THEN 5
  ELSE 4

RECURSIVE EncodedSize(_)
EncodedSize(instructions) ==
  IF instructions = <<>> THEN 0
  ELSE TableTotal(Head(instructions).op) + EncodedSize(Tail(instructions))

ToffoliOf(v, c1, c2, t) ==
  [i \in DOMAIN v |-> IF Bit(i, c1) = 1 /\ Bit(i, c2) = 1 THEN v[Flip(i, t)] ELSE v[i]]

\* C26: applyToffoli on three distinct live handles exchanges the amplitudes at
\* i and i XOR 2^t for every basis state i in which the bits of both controls
\* are set, each pair once, and leaves every other amplitude as it was.
C26_ToffoliExchangesPairs ==
  [][\A a, b, c \in Operands :
       (a # b /\ a # c /\ b # c
        /\ GateCall("applyToffoli", GateExecutor_applyToffoli(Machine, a, b, c)))
         => /\ call'.err = NoError
            /\ stateVector'.stateVector =
                 ToffoliOf(stateVector.stateVector, qubitRegistry.qubits[a],
                           qubitRegistry.qubits[b], qubitRegistry.qubits[c])]_vars

\* the bit positions of the qubits of the state vector
Positions == 0..(stateVector.qubitCount - 1)

\* C27: for every pair of distinct bit positions (c, t) and every state vector,
\* applyCNOT(c, t) and applyTwoQubitGate(c, t, CNOT matrix) produce identical
\* state vectors.
C27_FastPathMatchesKernel ==
  \A c, t \in Positions :
    (c # t)
      => /\ applyCNOT(stateVector, c, t).err = NoError
         /\ applyTwoQubitGate(stateVector, c, t, CNOTMatrix).err = NoError
         /\ applyCNOT(stateVector, c, t).S.stateVector
              = applyTwoQubitGate(stateVector, c, t, CNOTMatrix).S.stateVector

\* the gate g1 and then the gate g2 applied to the qubit at bit position q
AppliedTwice(S, q, g1, g2) ==
  IF applySingleQubitGate(S, q, g1).err # NoError THEN applySingleQubitGate(S, q, g1)
  ELSE applySingleQubitGate(applySingleQubitGate(S, q, g1).S, q, g2)

\* a gate and the gate that is to undo it
InversePairs ==
  {<<GATES["X"], GATES["X"]>>, <<GATES["H"], GATES["H"]>>, <<GATES["Z"], GATES["Z"]>>,
   <<RotationMatrix("RX", "pi"), RotationMatrix("RX", "-pi")>>,
   <<RotationMatrix("RX", "-pi"), RotationMatrix("RX", "pi")>>,
   <<RotationMatrix("RX", "0"), RotationMatrix("RX", "0")>>}

\* C28: for every qubit q of every reachable state, X applied twice to q
\* restores the state vector exactly as it was, and so do H and then H, Z and
\* then Z, RX(theta) and then RX(-theta).
C28_InversePairsRestore ==
  \A q \in Positions, pair \in InversePairs :
    /\ AppliedTwice(stateVector, q, pair[1], pair[2]).err = NoError
    /\ AppliedTwice(stateVector, q, pair[1], pair[2]).S.stateVector = stateVector.stateVector

\* a call of expandStateVector that returned
Expanded ==
  /\ VLen(stateVector'.stateVector) = 2 * VLen(stateVector.stateVector)
  /\ \A i \in DOMAIN stateVector.stateVector :
       stateVector'.stateVector[i] = stateVector.stateVector[i]
  /\ \A i \in DOMAIN stateVector'.stateVector :
       i >= VLen(stateVector.stateVector) => stateVector'.stateVector[i] = CZero
  /\ stateVector'.qubitCount = stateVector.qubitCount + 1

C30_CacheCoherent ==
  \A i \in DOMAIN stateVector.stateVector :
    /\ StateVector_getProbability(stateVector, i).err = NoError
    /\ StateVector_getProbability(stateVector, i).ret
         = magnitudeSquared(stateVector.stateVector[i])

\* C31: after an instruction that executes without error and is not a taken
\* jump, the program counter is the offset of the instruction's opcode byte
\* plus 1 plus the parameter size the instruction table gives for the opcode,
\* so that the next fetch reads the next instruction's opcode.
C31_PcAdvancesByTableSize ==
  [][(/\ InstructionStep
      /\ call'.err = NoError
      /\ InstructionAtPc.opcode \in OpcodeValues
      /\ ~(JumpAtPc.isJump \/ JumpAtPc.taken))
       => bytecodeInterpreter'.pc
            = bytecodeInterpreter.pc + 1 + getParameterSize(InstructionAtPc.opcode)]_vars

\* the turn of the loop ended with the error of the default case of the switch
UnknownOpcodeRaised ==
  /\ call'.err # NoError
  /\ call'.err[1] = "Unknown opcode"

\* C32: the interpreter raises 'Unknown opcode' for the byte it fetches if and
\* only if that byte is not an opcode of QBCOpcode; PHASE, iSWAP, FREDKIN and
\* MEASURE_ALL are dispatched.
C32_AcceptsTheTable ==
  [][InstructionStep => (UnknownOpcodeRaised <=> InstructionAtPc.opcode \notin OpcodeValues)]_vars

\* the position of the last record of the history h for the handle, 0 if none
LastRecord(h, qubitId) ==
  IF \E i \in 1..Len(h) : h[i].qubitId = qubitId
  THEN CHOOSE i \in 1..Len(h) :
         /\ h[i].qubitId = qubitId
         /\ \A j \in (i + 1)..Len(h) : h[j].qubitId # qubitId
  ELSE 0

\* the per-handle store holds, for each handle of the history h, the outcome of
\* its last record, and nothing for any other handle
StoreFollows(store, h) ==
  /\ DOMAIN store = {h[i].qubitId : i \in 1..Len(h)}
  /\ \A qubitId \in DOMAIN store : store[qubitId] = h[LastRecord(h, qubitId)].result

C34_ControlledMatchesKernel ==
  \A c, t \in DOMAIN qubitRegistry.qubits, gateName \in {"X", "H", "Z"} :
    (c # t)
      => GateExecutor_applyControlledGate(Machine, c, t, GATES[gateName]).vm.stateVector.stateVector
           = applyTwoQubitGate(stateVector, qubitRegistry.qubits[c], qubitRegistry.qubits[t],
                               createControlledGate(GATES[gateName])).S.stateVector

\* C35: expanding the one-qubit state vector [0, 1] gives the two-qubit state
\* vector [0, 0, 1, 0]: the amplitude that was at index 1 is at index 2.
C35_ExpandedOneIsAtTwo ==
  (/\ stateVector.qubitCount = 1
   /\ stateVector.stateVector = [i \in 0..1 |-> IF i = 1 THEN COne ELSE CZero])
    => /\ expandStateVector(stateVector).err = NoError
       /\ expandStateVector(stateVector).S.stateVector
            = [i \in 0..3 |-> IF i = 2 THEN COne ELSE CZero]

\* the sum of the counts of a histogram over the keys given
RECURSIVE CountsTotal(_, _)
CountsTotal(counts, keys) ==
  IF keys = {} THEN 0
  ELSE LET key == CHOOSE x \in keys : TRUE
       IN counts[key] + CountsTotal(counts, keys \ {key})

\* the bit strings of the live qubits that have a nonzero probability
PossibleBitStrings ==
  LET qubitsToMeasure == getAllQubits(qubitRegistry)
      qubitIndices == [j \in 1..Len(qubitsToMeasure) |-> qubitRegistry.qubits[qubitsToMeasure[j]]]
  IN {BitString(i, qubitIndices) :
        i \in {x \in DOMAIN stateVector.stateVector :
                 ~NumIsZero(magnitudeSquared(stateVector.stateVector[x]))}}

\* C36: in every state of norm 1 with a live qubit, for every shots > 0 and
\* whatever Math.random() returns, the histogram sample(shots) returns has
\* counts that sum to shots and only bit strings of nonzero probability as keys.
C36_EveryShotCounted ==
  \A shots \in 1..MaxShots, randoms \in [1..MaxShots -> SampleDraws] :
    (/\ NormSquared(stateVector.stateVector) = One
     /\ DOMAIN qubitRegistry.qubits # {})
      => /\ sample(Machine, shots, randoms).err = NoError
         /\ CountsTotal(sample(Machine, shots, randoms).ret,
                        DOMAIN sample(Machine, shots, randoms).ret) = shots
         /\ DOMAIN sample(Machine, shots, randoms).ret \subseteq PossibleBitStrings

\* how often the gate executor has counted gateName
GateCount(vm, gateName) ==
  IF MapHas(vm.gateExecutor.metrics.gateTypeCount, gateName)
  THEN vm.gateExecutor.metrics.gateTypeCount[gateName] ELSE 0

\* the qubit at bit position k of the state vector S is in |0>: the squared
\* magnitudes of the amplitudes with bit k clear add up to 1, the others are 0
InZero(S, k) ==
  /\ getProbability(S, k, 0) = One
  /\ \A i \in DOMAIN S.stateVector : Bit(i, k) = 1 => S.stateVector[i] = CZero

\* C37: resetQubit(h) of a live handle h adds exactly 1 to totalGatesExecuted
\* and exactly 1 to the count of 'Reset', whether its measurement gives 0 or 1,
\* and leaves the qubit in |0>.
C37_ResetCountsOnce ==
  \A h \in DOMAIN qubitRegistry.qubits, random \in Draws :
    LET r == GateExecutor_resetQubit(Machine, h, random)
    IN /\ r.err = NoError
       /\ r.vm.gateExecutor.metrics.totalGatesExecuted
            = gateExecutor.metrics.totalGatesExecuted + 1
       /\ GateCount(r.vm, "Reset") = GateCount(Machine, "Reset") + 1
       /\ InZero(r.vm.stateVector, qubitRegistry.qubits[h])

\* the collapsing measurement just made: the last record of the history
LastMeasured == measurementEngine.measurementHistory[Len(measurementEngine.measurementHistory)]

\* measuring qubitId again on the machine vm gives the outcome r
MeasuresAgain(vm, qubitId, r, random) ==
  /\ MeasurementEngine_measureQubit(vm, qubitId, FALSE, random).err = NoError
  /\ MeasurementEngine_measureQubit(vm, qubitId, FALSE, random).ret = r

\* C38: when a collapsing measurement of a qubit has just given r, measuring the
\* qubit again gives r, whatever Math.random() returns, and so it does after a
\* measurement of another qubit, no gate being applied in between.
C38_MeasurementRepeats ==
  (/\ call.op = "measureQubit"
   /\ call.err = NoError
   /\ measurementEngine.measurementHistory # <<>>
   /\ MapHas(qubitRegistry.qubits, LastMeasured.qubitId))
    => \A random \in Draws :
         /\ MeasuresAgain(Machine, LastMeasured.qubitId, LastMeasured.result, random)
         /\ \A other \in DOMAIN qubitRegistry.qubits \ {LastMeasured.qubitId}, between \in Draws :
              MeasurementEngine_measureQubit(Machine, other, FALSE, between).err = NoError
                => MeasuresAgain(MeasurementEngine_measureQubit(Machine, other, FALSE, between).vm,
                                 LastMeasured.qubitId, LastMeasured.result, random)


\* the three category counters of the interpreter's metrics, added up
CategoryOps(metrics) == metrics.quantumOps + metrics.classicalOps + metrics.jumpOps

\* END has been executed in the run: only its case clears running without an error
EndExecuted(B) == ~B.running /\ B.error = NoError

\* the identity between instructionsExecuted and the category counters
MetricsAddUp(metrics, ended) ==
  metrics.instructionsExecuted = CategoryOps(metrics) + (IF ended THEN 1 ELSE 0)

\* C39: at every instruction boundary of a run, and in the result the run
\* returns, instructionsExecuted is the sum of quantumOps, classicalOps and
\* jumpOps plus one if END has been executed; an instruction that raises an
\* error leaves all four counters as they were.
C39_MetricsAddUp ==
  /\ [](run.phase = "running"
          => MetricsAddUp(bytecodeInterpreter.metrics, EndExecuted(bytecodeInterpreter)))
  /\ [][InstructionStep =>
          /\ call'.err # NoError
               => bytecodeInterpreter'.metrics = bytecodeInterpreter.metrics
          /\ call'.err = NoError
               => /\ bytecodeInterpreter'.metrics.instructionsExecuted
                       = bytecodeInterpreter.metrics.instructionsExecuted + 1
                  /\ CategoryOps(bytecodeInterpreter'.metrics)
                       = CategoryOps(bytecodeInterpreter.metrics)
                           + (IF InstructionAtPc.opcode = Op.END THEN 0 ELSE 1)
          /\ run'.phase = "done"
               => /\ result'.metrics = bytecodeInterpreter'.metrics
                  /\ MetricsAddUp(result'.metrics, EndExecuted(bytecodeInterpreter'))]_vars

\* a run that counted classical instructions and jumps and then executed END has returned
C39_Witness ==
  /\ run.phase = "done"
  /\ result.success
  /\ EndExecuted(bytecodeInterpreter)
  /\ result.metrics.classicalOps > 0
  /\ result.metrics.jumpOps > 0
  /\ result.metrics.instructionsExecuted = CategoryOps(result.metrics) + 1

\* a run has ended on an instruction that raised an error after others were counted
C39_WitnessError ==
  /\ run.phase = "done"
  /\ ~result.success
  /\ call.op = "executeNextInstruction"
  /\ result.metrics.instructionsExecuted > 0

\* the handles the interpreter's reference map holds
MappedHandles(B) == {B.qubitIdMap[qubitRef] : qubitRef \in DOMAIN B.qubitIdMap}

\* no handle is the value of two references of the map
OneReferenceEach(B) ==
  \A r1, r2 \in DOMAIN B.qubitIdMap :
    B.qubitIdMap[r1] = B.qubitIdMap[r2] => r1 = r2

\* C40: during a run started on a machine with no qubits, the reference map
\* of the interpreter and the registry correspond one to one: every live handle
\* of the registry is the value of exactly one reference, and every value of the
\* map is a live handle, whatever ALLOC and DEALLOC instructions have run.
C40_MapMatchesRegistry ==
  run.phase = "running"
    => /\ MappedHandles(bytecodeInterpreter) = DOMAIN qubitRegistry.qubits
       /\ OneReferenceEach(bytecodeInterpreter)


====
